---- MODULE Spec2Model ----
(***************************************************************************)
(* Model of the deck tracker loop of rkbx_link: BeatKeeper::start (the     *)
(* attach / tick scheduler), BeatKeeper::update (one tick), TrackTracker   *)
(* and the change-tracked cells, from src/src/beatkeeper.rs.               *)
(*                                                                         *)
(* Conventions.  f32 quantities (bpm, beat, seconds) are held as integers  *)
(* in thousandths; the inputs are drawn so that every division is exact.   *)
(* A memory read is a record [ok, val] or [ok, err].  Option<T> is a       *)
(* record [some] or [some, v].  Everything a tick does that is visible     *)
(* outside the keeper (module callbacks, watcher calls, file reads, error  *)
(* log lines) is appended, in program order, to the variable trace.        *)
(***************************************************************************)
EXTENDS Integers, Sequences, FiniteSets, TLC

\* ------------------------------------------------------------------ bounds
MaxDecks == 2
MaxTicks == 3
NumModules == 2

\* ------------------------------------------------------- program constants
PadLen == 4
SampleRate == 44100
DefaultDecksKeeper == 4
DefaultDecksRekordbox == 2
ZeroBpmReplacement == 120000
DefaultOriginalBpm == 120000

VARIABLES
    cfg,         \* the configuration read once in BeatKeeper::start
    rekordbox,   \* Option<Rekordbox>: the Host Snapshot of the scheduler loop
    n,           \* the tick counter of the scheduler loop
    keeper,      \* the BeatKeeper struct
    mem,         \* the host memory as the latest loop iteration read it
    fs,          \* the ANLZ files on disk
    trace,       \* what the latest loop iteration did, in program order
    last,        \* the latest loop iteration: what ran and how it ended
    obs,         \* an observer of the ticks gone by, read by the heartbeat properties
    host,        \* the intermediate cells of the host's pointer chains
    osc,         \* the UDP emitter: the Osc struct and what the latest tick sent
    setlist      \* the setlist module, its files and its clock

vars == <<cfg, rekordbox, n, keeper, mem, fs, trace, last, obs, host, osc, setlist>>

\* ------------------------------------------------------------ basic types
Slots == 0 .. (PadLen - 1)
Modules == 1 .. NumModules

None == [some |-> FALSE]
Some(x) == [some |-> TRUE, v |-> x]

Ok(x) == [ok |-> TRUE, val |-> x]
Err(e) == [ok |-> FALSE, err |-> e]

\* struct ReadError { pointer, address, error }
ReadError(pointer, address, error) ==
    [pointer |-> pointer, address |-> address, error |-> error]

\* ------------------------------------------------- Value, PointerChainValue
\* The host keeps every observable slot behind a pointer chain. The chain of
\* a slot is kept as its one intermediate cell: h[kind][deck] is the address
\* the cell holds (the master-deck index has the one chain h[kind][0]).
ValueKinds == {"masterdeck_index", "current_bpm", "sample_position"}
PointerChainKinds == {"track_info", "anlz_path"}

\* Value::new: walk the chain through the intermediate cell, keep the address
ValueNew(h, kind, deck) == [address |-> h[kind][deck]]

\* Rekordbox::new(offsets, decks): the Value slots resolve their chains here
RekordboxNew(h, decks) ==
    [deckcount |-> decks,
     address |-> [kind \in ValueKinds |-> [d \in Slots |-> ValueNew(h, kind, d).address]]]

\* config.get_or_default(key, default): the entry if the key is set
GetOrDefault(entry, default) == IF entry.some THEN entry.v ELSE default

DefaultTrackInfo == [title |-> "", artist |-> "", album |-> ""]

\* A path string, kept as the pieces the code's string operations act on:
\* the separator it is written with, the stem and the extension.
EmptyPath == [sep |-> "", stem |-> "", ext |-> ""]
Path(sep, stem, ext) == [sep |-> sep, stem |-> stem, ext |-> ext]

\* ------------------------------------------------- ChangeTrackedValue::set
\* mutant: set reports a change whatever the stored value
MutCellSetAlways(cell, value) == <<value, TRUE>>

\* returns <<cell after, changed>>
CellSet(cell, value) == IF cell # value THEN <<value, TRUE>> ELSE <<cell, FALSE>>

NewTrackingDataTracker ==
    [bpm_changed |-> 0, original_bpm_changed |-> 0, beat_changed |-> 0,
     pos_changed |-> 0, phrase |-> "", next_phrase |-> "", next_phrase_in |-> 0]

NewTrackTracker == [beatgrid |-> None, songstructure |-> None]

NewKeeper ==
    [masterdeck_index |-> 0,
     track_infos |-> [i \in Slots |-> DefaultTrackInfo],
     track_trackers |-> [i \in Slots |-> NewTrackTracker],
     td_trackers |-> [i \in Slots |-> NewTrackingDataTracker],
     master_td_tracker |-> NewTrackingDataTracker,
     anlz_paths |-> [i \in Slots |-> EmptyPath],
     watcher |-> {},
     watcher_rx |-> <<>>,
     last_error |-> None,
     very_slow_update_flag |-> FALSE]

\* ------------------------------------------------------------ PhraseParser
\* utils::PhraseParser::get_phrase_name: the static (mood, kind) -> label table
PhraseName(mood, kind) ==
    CASE mood = "High" /\ kind = 1 -> "Intro"
      [] mood = "High" /\ kind = 2 -> "Up"
      [] mood = "High" /\ kind = 3 -> "Down"
      [] mood = "High" /\ kind = 5 -> "Chorus"
      [] mood = "High" /\ kind = 6 -> "Outro"
      [] mood = "Mid" /\ kind = 1 -> "Intro"
      [] mood = "Mid" /\ kind = 2 -> "Verse 1"
      [] mood = "Mid" /\ kind = 9 -> "Chorus"
      [] OTHER -> "Unknown"

\* ------------------------------------------------------ TrackTracker::update
SaturatingSub1(x) == IF x > 0 THEN x - 1 ELSE 0

\* mutant: the grid scan stops only after time_now
MutGridStopAfter(gridbeat, pos) == gridbeat.time * (SampleRate \div 100) > pos * 10

\* for gridbeat in grid.beats.iter() { if gridbeat.time as f32 / 1000. >=
\* time_now { break; } beat_idx += 1; }  with time_now =
\* (sample_position + offset_samples) / 44100, compared cross-multiplied
GridStop(gridbeat, pos) == gridbeat.time * (SampleRate \div 100) >= pos * 10

RECURSIVE GridScan(_, _, _)
GridScan(beats, pos, idx) ==
    IF idx >= Len(beats) THEN idx
    ELSE IF GridStop(beats[idx + 1], pos) THEN idx
    ELSE GridScan(beats, pos, idx + 1)

\* mutant: the phrase scan stops at the phrase that starts on beat_num
MutPhraseStopAt(phrase, beat_num) == phrase.beat >= beat_num

\* for phrase in phrases.iter() { if phrase.beat as usize > beat_num
\* { break; } phrase_idx += 1; }
PhraseStop(phrase, beat_num) == phrase.beat > beat_num

RECURSIVE PhraseScan(_, _, _)
PhraseScan(phrases, beat_num, idx) ==
    IF idx >= Len(phrases) THEN idx
    ELSE IF PhraseStop(phrases[idx + 1], beat_num) THEN idx
    ELSE PhraseScan(phrases, beat_num, idx + 1)

\* x * y / z without an intermediate product beyond the integer width
MulDiv(x, y, z) == (x \div z) * y + ((x % z) * y) \div z

\* a beat value (f32) is kept in millionths of a beat
BeatUnit == 1000000

\* remainder / spb in millionths of a beat, with remainder = time_now -
\* gridbeat.time / 1000 (in units of 1/441000 s: pos * 10 - time * 441) and
\* spb = 1 / (tempo / 100 / 60)
BeatFraction(gridbeat, pos) ==
    MulDiv(pos * 10 - gridbeat.time * (SampleRate \div 100), gridbeat.tempo,
           (SampleRate \div 100) * 6)

\* Rekordbox::read_timing_data: sample position first, then current bpm
ReadTimingData(m, deck) ==
    IF ~m.sample_positions[deck].ok THEN m.sample_positions[deck]
    ELSE IF ~m.current_bpms[deck].ok THEN m.current_bpms[deck]
    ELSE Ok([current_bpm |-> m.current_bpms[deck].val,
             sample_position |-> m.sample_positions[deck].val])

\* if td.current_bpm == 0.0 { td.current_bpm = 120.0 }
CoerceBpm(bpm) == IF bpm = 0 THEN ZeroBpmReplacement ELSE bpm

\* Result: [st |-> "ok", res |-> TrackTrackerResult], [st |-> "err", err |-> e]
\* or [st |-> "panic"] (an index out of bounds)
TrackTrackerUpdate(m, deckcount, tracker, offset_samples, deck) ==
    IF deck >= deckcount THEN [st |-> "panic"]
    ELSE LET read == ReadTimingData(m, deck) IN
    IF ~read.ok THEN [st |-> "err", err |-> read.err]
    ELSE
    LET td == [read.val EXCEPT !.current_bpm = CoerceBpm(@)]
        pos == td.sample_position + offset_samples
        hasGrid == tracker.beatgrid.some
        beats == IF hasGrid THEN tracker.beatgrid.v.beats ELSE <<>>
        beat_idx == IF hasGrid THEN SaturatingSub1(GridScan(beats, pos, 0)) ELSE 0
        hasSong == tracker.songstructure.some
        phrases == IF hasSong THEN tracker.songstructure.v.phrases ELSE <<>>
        mood == IF hasSong THEN tracker.songstructure.v.mood ELSE ""
        beat_num == beat_idx + 1
        phrase_idx == IF hasSong THEN SaturatingSub1(PhraseScan(phrases, beat_num, 0)) ELSE 0
    IN
    IF hasGrid /\ beat_idx + 1 > Len(beats) THEN [st |-> "panic"]
    ELSE IF hasSong /\ phrase_idx + 1 > Len(phrases) THEN [st |-> "panic"]
    ELSE
    LET gridbeat == beats[beat_idx + 1]
        original_bpm == IF hasGrid THEN gridbeat.tempo * 10 ELSE DefaultOriginalBpm
        b == (gridbeat.beat_number + 3) % 4
        beat == IF hasGrid THEN b * BeatUnit + BeatFraction(gridbeat, pos) ELSE 0
        hasNext == hasSong /\ phrase_idx + 1 < Len(phrases)
    IN [st |-> "ok",
        res |-> [beat |-> beat,
                 original_bpm |-> original_bpm,
                 timing_data_raw |-> td,
                 phrase |-> IF hasSong THEN PhraseName(mood, phrases[phrase_idx + 1].kind) ELSE "",
                 next_phrase |-> IF hasNext THEN PhraseName(mood, phrases[phrase_idx + 2].kind) ELSE "",
                 next_phrase_in |-> IF hasNext THEN phrases[phrase_idx + 2].beat - beat_num ELSE 0]]

\* ------------------------------------------------------- trace entries
\* a per-deck callback (or, with m = 0, a watcher call or file read made for
\* a deck), a master-channel callback, and another operation (m = 0)
Call(cb, deck, val) == [cb |-> cb, deck |-> deck, m |-> 0, val |-> val]
CallMaster(cb, val) == [cb |-> cb, m |-> 0, val |-> val]
Op(cb, val) == [cb |-> cb, m |-> 0, val |-> val]

\* if cond { module.call(..) }
Cond(cond, call) == IF cond THEN <<call>> ELSE <<>>

\* for module in &mut self.running_modules { calls }: module-major order
ForEachModule(calls) ==
    [j \in 1 .. (NumModules * Len(calls)) |->
        [calls[((j - 1) % Len(calls)) + 1] EXCEPT !.m = ((j - 1) \div Len(calls)) + 1]]

\* sample_position as f32 / 44100., in ms
Seconds(sample_position) == (sample_position * 10) \div (SampleRate \div 100)

\* ------------------------------------------------ BeatKeeper::update, decks
\* mutant: the heartbeat override is dropped
MutChangedOnly(changed, very_slow_update, enabled) == changed

\* cell.set(new) || very_slow_update && self.hearbeat_config.<field>
ChangedOrHeartbeat(changed, very_slow_update, enabled) ==
    changed \/ (very_slow_update /\ enabled)

\* mutant: the first deck is taken for the master deck
MutIsMasterFirstDeck(i, masterdeck_index) == i = 0

\* let is_master = i == self.masterdeck_index.value;
IsMaster(i, masterdeck_index) == i = masterdeck_index

\* the seven cells of a TrackingDataTracker fed with a tracker result:
\* [cells |-> the tracker after, fire |-> which fields dispatch]
FeedTracker(td, res, very_slow_update) ==
    LET hb == cfg.heartbeat
        bpm == CellSet(td.bpm_changed, res.timing_data_raw.current_bpm)
        obpm == CellSet(td.original_bpm_changed, res.original_bpm)
        beat == CellSet(td.beat_changed, res.beat)
        pos == CellSet(td.pos_changed, res.timing_data_raw.sample_position)
        phrase == CellSet(td.phrase, res.phrase)
        next == CellSet(td.next_phrase, res.next_phrase)
        nextin == CellSet(td.next_phrase_in, res.next_phrase_in)
    IN [cells |-> [bpm_changed |-> bpm[1], original_bpm_changed |-> obpm[1],
                   beat_changed |-> beat[1], pos_changed |-> pos[1],
                   phrase |-> phrase[1], next_phrase |-> next[1],
                   next_phrase_in |-> nextin[1]],
        fire |-> [bpm |-> ChangedOrHeartbeat(bpm[2], very_slow_update, hb.bpm),
                  original_bpm |-> ChangedOrHeartbeat(obpm[2], very_slow_update, hb.original_bpm),
                  beat |-> ChangedOrHeartbeat(beat[2], very_slow_update, hb.beat),
                  pos |-> ChangedOrHeartbeat(pos[2], very_slow_update, hb.pos),
                  phrase |-> ChangedOrHeartbeat(phrase[2], very_slow_update, hb.phrase),
                  next_phrase |-> ChangedOrHeartbeat(next[2], very_slow_update, hb.phrase),
                  next_phrase_in |-> ChangedOrHeartbeat(nextin[2], very_slow_update, hb.phrase)]]

\* mutant: the per-deck module loop in the order of the cells
MutDeckCallsCellOrder(fire, res, i) ==
    Cond(fire.bpm, Call("bpm_changed", i, res.timing_data_raw.current_bpm))
    \o Cond(fire.original_bpm, Call("original_bpm_changed", i, res.original_bpm))
    \o Cond(fire.beat, Call("beat_update", i, res.beat))
    \o Cond(fire.pos, Call("time_update", i, Seconds(res.timing_data_raw.sample_position)))
    \o Cond(fire.phrase, Call("phrase_changed", i, res.phrase))
    \o Cond(fire.next_phrase, Call("next_phrase_changed", i, res.next_phrase))
    \o Cond(fire.next_phrase_in, Call("next_phrase_in", i, res.next_phrase_in))

\* the body of the per-deck module loop, lines 512-534
DeckCalls(fire, res, i) ==
    Cond(fire.beat, Call("beat_update", i, res.beat))
    \o Cond(fire.pos, Call("time_update", i, Seconds(res.timing_data_raw.sample_position)))
    \o Cond(fire.bpm, Call("bpm_changed", i, res.timing_data_raw.current_bpm))
    \o Cond(fire.original_bpm, Call("original_bpm_changed", i, res.original_bpm))
    \o Cond(fire.phrase, Call("phrase_changed", i, res.phrase))
    \o Cond(fire.next_phrase, Call("next_phrase_changed", i, res.next_phrase))
    \o Cond(fire.next_phrase_in, Call("next_phrase_in", i, res.next_phrase_in))

\* the body of the master module loop, lines 564-588; the two phrase labels
\* are read back from the master cells
MasterCalls(fire, res, cells) ==
    Cond(fire.beat, CallMaster("beat_update_master", res.beat))
    \o Cond(fire.pos, CallMaster("time_update_master", Seconds(res.timing_data_raw.sample_position)))
    \o Cond(fire.bpm, CallMaster("bpm_changed_master", res.timing_data_raw.current_bpm))
    \o Cond(fire.original_bpm, CallMaster("original_bpm_changed_master", res.original_bpm))
    \o Cond(fire.phrase, CallMaster("phrase_changed_master", cells.phrase))
    \o Cond(fire.next_phrase, CallMaster("next_phrase_changed_master", cells.next_phrase))
    \o Cond(fire.next_phrase_in, CallMaster("next_phrase_in_master", res.next_phrase_in))

\* mutant: the master loop runs before the deck's own loop
MutDispatchMasterFirst(deckCalls, masterCalls) ==
    ForEachModule(masterCalls) \o ForEachModule(deckCalls)

\* what one deck's iteration appends: its own loop, then the master loop
DeckDispatch(deckCalls, masterCalls) ==
    ForEachModule(deckCalls) \o ForEachModule(masterCalls)

\* A tick in progress: s = [k |-> the keeper, tr |-> the trace so far,
\* st |-> "run" | "ok" | "err" | "panic", err |-> the error returned,
\* mtc |-> masterdeck_track_changed, mic |-> masterdeck_index_changed]

\* mutant: keep_warm is taken as set
MutRunsEveryDeck(is_master, keep_warm) == TRUE

\* if is_master | self.keep_warm { .. }
Runs(is_master, keep_warm) == is_master \/ keep_warm

\* one iteration of the deck loop, lines 494-591
DeckStep(s, m, deckcount, i, very_slow_update) ==
    LET k == s.k
        is_master == IsMaster(i, k.masterdeck_index)
    IN
    IF ~Runs(is_master, cfg.keep_warm) THEN s
    ELSE
    LET r == TrackTrackerUpdate(m, deckcount, k.track_trackers[i], cfg.offset_samples, i) IN
    IF r.st = "panic" THEN [s EXCEPT !.st = "panic"]
    ELSE IF r.st = "err" THEN s
    ELSE
    LET deck == FeedTracker(k.td_trackers[i], r.res, very_slow_update)
        master == FeedTracker(k.master_td_tracker, r.res, very_slow_update)
    IN
    [s EXCEPT
        !.k.td_trackers[i] = deck.cells,
        !.k.master_td_tracker = IF is_master THEN master.cells ELSE @,
        !.tr = @ \o DeckDispatch(
                    DeckCalls(deck.fire, r.res, i),
                    IF is_master THEN MasterCalls(master.fire, r.res, master.cells) ELSE <<>>)]

\* for (i, (tracker, td_tracker)) in track_trackers[0..decks].zip(..).enumerate()
RECURSIVE DeckLoop(_, _, _, _, _)
DeckLoop(s, m, deckcount, i, very_slow_update) ==
    IF s.st # "run" \/ i >= GetOrDefault(cfg.decks, DefaultDecksKeeper) THEN s
    ELSE DeckLoop(DeckStep(s, m, deckcount, i, very_slow_update),
                  m, deckcount, i + 1, very_slow_update)

\* mutant: a very-slow tick does not latch the flag
MutNeverLatch(flag, very_slow_update) == flag

\* if very_slow_update { self.very_slow_update_flag = true; }
Latch(flag, very_slow_update) == flag \/ very_slow_update

\* mutant: only an index beyond deckcount counts as uninitialised
MutUninitialisedBeyond(masterdeck_index, deckcount) == masterdeck_index > deckcount

\* if self.masterdeck_index.value >= rb.deckcount { return Ok(()); }
Uninitialised(masterdeck_index, deckcount) == masterdeck_index >= deckcount

\* lines 477-591: the master index, the short circuit, the latch, pre_update
\* and the deck loop
UpdateFast(k0, m, deckcount, very_slow_update) ==
    LET s0 == [k |-> k0, tr |-> <<>>, st |-> "run", err |-> None,
               mtc |-> FALSE, mic |-> FALSE]
    IN
    IF ~m.masterdeck_index.ok
    THEN [s0 EXCEPT !.st = "err", !.err = Some(m.masterdeck_index.err)]
    ELSE
    LET idx == CellSet(k0.masterdeck_index, m.masterdeck_index.val)
        s1 == [s0 EXCEPT !.k.masterdeck_index = idx[1], !.mic = idx[2]]
    IN
    IF Uninitialised(s1.k.masterdeck_index, deckcount) THEN [s1 EXCEPT !.st = "ok"]
    ELSE
    LET s2 == [s1 EXCEPT
                  !.k.very_slow_update_flag = Latch(@, very_slow_update),
                  !.tr = ForEachModule(<<Op("pre_update", 0)>>)]
    IN
    IF GetOrDefault(cfg.decks, DefaultDecksKeeper) > PadLen
    THEN [s2 EXCEPT !.st = "panic"]
    ELSE DeckLoop(s2, m, deckcount, 0, very_slow_update)

\* ------------------------------------------------------ files and watcher
\* A file on disk is [state |-> "missing"], [state |-> "garbage"] (readable,
\* not parsable) or [state |-> "ok", sections |-> the ANLZ sections].
Missing == [state |-> "missing"]
Garbage == [state |-> "garbage"]
AnlzFile(sections) == [state |-> "ok", sections |-> sections]

\* x.value.replace(".DAT", ".EXT")
ReplaceDatExt(path) == IF path.ext = "DAT" THEN [path EXCEPT !.ext = "EXT"] ELSE path

\* path.to_string_lossy().replace("\\", "/")
NormalizeSeparators(path) == IF path.sep = "\\" THEN [path EXCEPT !.sep = "/"] ELSE path

\* std::fs::read(path): the operating system accepts either separator
FileRead(files, path) ==
    IF <<path.stem, path.ext>> \in DOMAIN files THEN files[<<path.stem, path.ext>>]
    ELSE Missing

\* self.watcher.watch(path, NonRecursive): fails on a file that does not exist
WatcherWatch(w, files, path) ==
    IF FileRead(files, path).state = "missing" THEN [w |-> w, ok |-> FALSE]
    ELSE [w |-> w \cup {path}, ok |-> TRUE]

\* self.watcher.unwatch(path): fails on a path that is not watched
WatcherUnwatch(w, path) == [w |-> w \ {path}, ok |-> path \in w]

\* for section in anlz.sections { match section.content { <tag>(x) => cache = Some(x) } }
RECURSIVE SectionsInto(_, _, _, _)
SectionsInto(sections, tag, cache, idx) ==
    IF idx > Len(sections) THEN cache
    ELSE SectionsInto(sections, tag,
                      IF sections[idx].tag = tag THEN Some(sections[idx].data) ELSE cache,
                      idx + 1)

\* ------------------------------------------- BeatKeeper::update, slow part
Min(S) == CHOOSE x \in S : \A y \in S : x <= y

\* the first failed read of a batch over 0..deckcount-1, or None
FirstError(reads, deckcount) ==
    LET bad == {i \in 0 .. (deckcount - 1) : ~reads[i].ok}
    IN IF bad = {} THEN None ELSE Some(reads[Min(bad)].err)

\* mutant: the slow-tick heartbeat does not wait for the latched flag
MutHeartbeatUnlatched(flag, enabled) == enabled

\* self.very_slow_update_flag && self.hearbeat_config.<field>
HeartbeatDue(flag, enabled) == flag /\ enabled

\* lines 598-605, one deck
TrackInfoStep(s, track, i) ==
    LET set == CellSet(s.k.track_infos[i], track) IN
    IF set[2] \/ HeartbeatDue(s.k.very_slow_update_flag, cfg.heartbeat.track_info)
    THEN [s EXCEPT !.k.track_infos[i] = set[1],
                   !.tr = @ \o ForEachModule(<<Call("track_changed", i, set[1])>>),
                   !.mtc = @ \/ (s.k.masterdeck_index = i)]
    ELSE s

RECURSIVE TrackInfoLoop(_, _, _, _)
TrackInfoLoop(s, m, deckcount, i) ==
    IF i >= deckcount THEN s
    ELSE IF i >= PadLen THEN [s EXCEPT !.st = "panic"]
    ELSE TrackInfoLoop(TrackInfoStep(s, m.track_infos[i].val, i), m, deckcount, i + 1)

\* self.anlz_paths.iter().position(|x| x.value == path
\*     || x.value.replace(".DAT", ".EXT") == path)
EventPosition(anlz_paths, path) ==
    LET hit == {i \in Slots : anlz_paths[i] = path \/ ReplaceDatExt(anlz_paths[i]) = path}
    IN IF hit = {} THEN None ELSE Some(Min(hit))

\* lines 609-624: while let Ok(u) = self.watcher_rx.try_recv() { .. }
\* s carries upd, the array anlz_file_updates
RECURSIVE DrainLoop(_, _, _)
DrainLoop(s, rx, idx) ==
    IF idx > Len(rx) THEN s
    ELSE
    LET u == rx[idx]
        pos == IF u.ok /\ Len(u.val.paths) > 0
               THEN EventPosition(s.k.anlz_paths, NormalizeSeparators(u.val.paths[1]))
               ELSE None
        s1 == IF ~u.ok THEN [s EXCEPT !.tr = @ \o <<Op("log_err", "Watcher error")>>]
              ELSE IF pos.some THEN [s EXCEPT !.upd[pos.v] = TRUE]
              ELSE s
    IN DrainLoop(s1, rx, idx + 1)

\* the calls whose error is logged and dropped: .unwrap_or_else(|e| logger.err(..))
LogIfFailed(ok, what) == IF ok THEN <<>> ELSE <<Op("log_err", what)>>

\* mutant: the path is stored and watched before the old path is unwatched
MutSwitchPathWatchFirst(s, files, path, i) ==
    LET old == s.k.anlz_paths[i]
        w1 == WatcherWatch(s.k.watcher, files, path)
        w2 == WatcherWatch(w1.w, files, ReplaceDatExt(path))
        u1 == WatcherUnwatch(w2.w, old)
        u2 == WatcherUnwatch(u1.w, ReplaceDatExt(old))
    IN [s EXCEPT
          !.k.anlz_paths[i] = path,
          !.k.watcher = u2.w,
          !.tr = @ \o <<Call("watch", i, path)>> \o LogIfFailed(w1.ok, "Failed to watch path")
                   \o <<Call("watch", i, ReplaceDatExt(path))>> \o LogIfFailed(w2.ok, "Failed to watch path")
                   \o <<Call("unwatch", i, old)>> \o LogIfFailed(u1.ok, "Failed to unwatch path")
                   \o <<Call("unwatch", i, ReplaceDatExt(old))>> \o LogIfFailed(u2.ok, "Failed to unwatch path")]

\* lines 636-656: the path of deck i switches to path
SwitchPath(s, files, path, i) ==
    LET old == s.k.anlz_paths[i]
        u1 == WatcherUnwatch(s.k.watcher, old)
        u2 == WatcherUnwatch(u1.w, ReplaceDatExt(old))
        w1 == WatcherWatch(u2.w, files, path)
        w2 == WatcherWatch(w1.w, files, ReplaceDatExt(path))
    IN [s EXCEPT
          !.k.anlz_paths[i] = path,
          !.k.watcher = w2.w,
          !.tr = @ \o <<Call("unwatch", i, old)>> \o LogIfFailed(u1.ok, "Failed to unwatch path")
                   \o <<Call("unwatch", i, ReplaceDatExt(old))>> \o LogIfFailed(u2.ok, "Failed to unwatch path")
                   \o <<Call("watch", i, path)>> \o LogIfFailed(w1.ok, "Failed to watch path")
                   \o <<Call("watch", i, ReplaceDatExt(path))>> \o LogIfFailed(w2.ok, "Failed to watch path")]

\* mutant: a failed read or parse of an ANLZ file ends the tick with an error
MutLogAndFail(s, lines) ==
    [s EXCEPT !.tr = @ \o lines, !.st = "err",
              !.err = Some(ReadError("None", <<"anlz_file", 0>>, "ReadMemoryFailed"))]

\* self.logger.err(..); continue;
LogAndContinue(s, lines) == [s EXCEPT !.tr = @ \o lines]

\* lines 658-706: read and parse the .DAT, then the .EXT, of deck i
Reload(s, files, i) ==
    LET path == s.k.anlz_paths[i]
        dat == FileRead(files, path)
        ext == FileRead(files, ReplaceDatExt(path))
        sDat == [s EXCEPT !.tr = @ \o <<Call("read", i, path)>>]
    IN
    IF dat.state = "missing"
    THEN LogAndContinue(sDat, <<Op("log_err", "Failed to read anlz file"),
                                Op("log_err", "If you are loading a new Tidal track")>>)
    ELSE IF dat.state = "garbage"
    THEN LogAndContinue(sDat, <<Op("log_err", "Failed to parse DAT file")>>)
    ELSE
    LET sGrid == [sDat EXCEPT
                    !.k.track_trackers[i].beatgrid = SectionsInto(dat.sections, "BeatGrid", @, 1),
                    !.tr = @ \o <<Call("read", i, ReplaceDatExt(path))>>]
    IN
    IF ext.state = "missing"
    THEN LogAndContinue(sGrid, <<Op("log_err", "Failed to read EXT file")>>)
    ELSE IF ext.state = "garbage"
    THEN LogAndContinue(sGrid, <<Op("log_err", "Failed to parse EXT file")>>)
    ELSE [sGrid EXCEPT
            !.k.track_trackers[i].songstructure = SectionsInto(ext.sections, "SongStructure", @, 1)]

\* lines 626-708, one deck
AnlzStep(s, files, path, i) ==
    LET changed == s.k.anlz_paths[i] # path
        s1 == IF changed \/ HeartbeatDue(s.k.very_slow_update_flag, cfg.heartbeat.anlz_path)
              THEN [s EXCEPT !.tr = @ \o ForEachModule(<<Call("anlz_path_changed", i, path)>>)]
              ELSE s
    IN
    IF ~(changed \/ s.upd[i]) THEN s1
    ELSE Reload(IF changed THEN SwitchPath(s1, files, path, i) ELSE s1, files, i)

RECURSIVE AnlzLoop(_, _, _, _, _)
AnlzLoop(s, m, files, deckcount, i) ==
    IF i >= deckcount THEN s
    ELSE IF i >= PadLen THEN [s EXCEPT !.st = "panic"]
    ELSE AnlzLoop(AnlzStep(s, files, m.anlz_paths[i].val, i), m, files, deckcount, i + 1)

\* lines 596-715: if slow_update { .. }
UpdateSlow(s, m, files, deckcount) ==
    LET e1 == FirstError(m.track_infos, deckcount) IN
    IF e1.some THEN [s EXCEPT !.st = "err", !.err = e1]
    ELSE
    LET s1 == TrackInfoLoop(s, m, deckcount, 0) IN
    IF s1.st # "run" THEN s1
    ELSE
    LET s2 == DrainLoop([k |-> [s1.k EXCEPT !.watcher_rx = <<>>], tr |-> s1.tr,
                         st |-> s1.st, err |-> s1.err, mtc |-> s1.mtc, mic |-> s1.mic,
                         upd |-> [i \in Slots |-> FALSE]],
                        s1.k.watcher_rx, 1)
        e2 == FirstError(m.anlz_paths, deckcount)
    IN
    IF e2.some THEN [s2 EXCEPT !.st = "err", !.err = e2]
    ELSE
    LET s3 == AnlzLoop(s2, m, files, deckcount, 0) IN
    IF s3.st # "run" THEN s3
    ELSE [s3 EXCEPT !.tr = @ \o ForEachModule(<<Op("slow_update", 0)>>),
                    !.k.very_slow_update_flag = FALSE]

\* mutant: the master track change is dispatched before the index change
MutUpdateTailSwapped(s, very_slow_update) ==
    LET idx == s.k.masterdeck_index
        a == IF s.mic \/ (very_slow_update /\ cfg.heartbeat.masterdeck_index)
             THEN ForEachModule(<<CallMaster("masterdeck_index_changed", idx)>>) ELSE <<>>
        b == IF s.mic \/ s.mtc
             THEN ForEachModule(<<CallMaster("track_changed_master", s.k.track_infos[idx])>>)
             ELSE <<>>
    IN [s EXCEPT !.tr = @ \o b \o a, !.st = "ok"]

\* lines 717-734: the master-deck dispatches and the return
UpdateTail(s, very_slow_update) ==
    LET idx == s.k.masterdeck_index
        a == IF s.mic \/ (very_slow_update /\ cfg.heartbeat.masterdeck_index)
             THEN ForEachModule(<<CallMaster("masterdeck_index_changed", idx)>>) ELSE <<>>
        b == IF s.mic \/ s.mtc
             THEN ForEachModule(<<CallMaster("track_changed_master", s.k.track_infos[idx])>>)
             ELSE <<>>
    IN [s EXCEPT !.tr = @ \o a \o b, !.st = "ok"]

\* BeatKeeper::update(rb, slow_update, very_slow_update)
KeeperUpdate(k0, m, files, deckcount, slow_update, very_slow_update) ==
    LET s1 == UpdateFast(k0, m, deckcount, very_slow_update) IN
    IF s1.st # "run" THEN s1
    ELSE
    LET s2 == IF slow_update THEN UpdateSlow(s1, m, files, deckcount) ELSE s1 IN
    IF s2.st # "run" THEN s2
    ELSE UpdateTail(s2, very_slow_update)

\* ---------------------------------------------------- BeatKeeper::start
\* mutant: report_error does not compare with the last error
MutReportEveryError(last_error, e) ==
    IF e.error \in {"ProcessNotFound", "ModuleNotFound"}
    THEN <<Op("log_err", "Rekordbox process not found!")>>
    ELSE IF e.error = "SnapshotFailed"
    THEN <<Op("log_err", "Snapshot failed"), Op("log_info", "Ensure Rekordbox is running!")>>
    ELSE IF e.error = "ReadMemoryFailed"
    THEN <<Op("log_err", "Read memory failed"), Op("log_info", "Try the following:")>>
    ELSE <<Op("log_err", "Write memory failed")>>

\* BeatKeeper::report_error: what it logs, and last_error after. The help
\* lines that follow "Try the following:" are one entry; the debug lines
\* (pointer, address) show only when debugging is on and are left out.
ReportErrorLog(last_error, e) ==
    IF last_error = Some(e) THEN <<>>
    ELSE IF e.error \in {"ProcessNotFound", "ModuleNotFound"}
    THEN <<Op("log_err", "Rekordbox process not found!")>>
    ELSE IF e.error = "SnapshotFailed"
    THEN <<Op("log_err", "Snapshot failed"), Op("log_info", "Ensure Rekordbox is running!")>>
    ELSE IF e.error = "ReadMemoryFailed"
    THEN <<Op("log_err", "Read memory failed"), Op("log_info", "Try the following:")>>
    ELSE <<Op("log_err", "Write memory failed")>>

\* mutant: report_error does not remember the error
MutForgetError(last_error, e) == None

ReportError(last_error, e) == IF last_error = Some(e) THEN last_error ELSE Some(e)

\* n % slow_update_denominator == 0, n % very_slow_update_denominator == 0
IsSlow(tick) == tick % cfg.slow_update_denominator = 0
IsVerySlow(tick) == tick % cfg.very_slow_update_denominator = 0

Crashed == last.res = "Panic"

\* mutant: the counter advances on every tick, failed ones included
MutAdvanceAlways(tick, st) == tick + 1

\* lines 399-408: n += 1 in the else branch of `if let Err(e) = keeper.update(..)`
Advance(tick, st) == IF st = "ok" THEN tick + 1 ELSE tick

\* the else branch of the loop, lines 413-427: Rekordbox::new succeeds or fails
Attach(result) ==
    /\ ~Crashed
    /\ ~rekordbox.some
    /\ IF result.ok
       THEN /\ rekordbox' = Some(RekordboxNew(host, GetOrDefault(cfg.decks, DefaultDecksRekordbox)))
            /\ keeper' = [keeper EXCEPT !.last_error = None]
            /\ trace' = <<Op("log_good", "Connected to Rekordbox!")>>
            /\ last' = [op |-> "attach", res |-> "Ok", slow |-> FALSE,
                        very_slow |-> FALSE, err |-> None]
       ELSE /\ rekordbox' = rekordbox
            /\ keeper' = [keeper EXCEPT !.last_error = ReportError(@, result.err)]
            /\ trace' = ReportErrorLog(keeper.last_error, result.err)
                            \o <<Op("log_info", "...")>>
            /\ last' = [op |-> "attach", res |-> "Err", slow |-> FALSE,
                        very_slow |-> FALSE, err |-> Some(result.err)]
    /\ UNCHANGED <<cfg, n, mem, fs, host, osc, setlist>>

\* the if branch of the loop, lines 397-412: one call of update against the
\* host memory m
Update(m, maxTicks) ==
    /\ ~Crashed
    /\ rekordbox.some
    /\ n < maxTicks
    /\ \E s \in {KeeperUpdate(keeper, m, fs, rekordbox.v.deckcount, IsSlow(n), IsVerySlow(n))} :
       /\ mem' = m
       /\ last' = [op |-> "update",
                   res |-> CASE s.st = "ok" -> "Ok" [] s.st = "err" -> "Err" [] OTHER -> "Panic",
                   slow |-> IsSlow(n), very_slow |-> IsVerySlow(n), err |-> s.err]
       /\ IF s.st = "err"
          THEN /\ keeper' = [s.k EXCEPT !.last_error = ReportError(@, s.err.v)]
               /\ trace' = s.tr \o ReportErrorLog(s.k.last_error, s.err.v)
                                \o <<Op("log_err", "Connection to Rekordbox lost"),
                                     Op("log_info", "Reconnecting in 3s...")>>
               /\ rekordbox' = None
               /\ n' = Advance(n, s.st)
          ELSE /\ keeper' = s.k
               /\ trace' = s.tr
               /\ rekordbox' = rekordbox
               /\ n' = Advance(n, s.st)
    /\ UNCHANGED <<cfg, fs, host>>

\* ------------------------------------------------------------ environment
\* the ANLZ files of a track: a grid of two beats at 150 bpm and three phrases
GridA ==
    [beats |-> <<[time |-> 0, tempo |-> 15000, beat_number |-> 1],
                 [time |-> 400, tempo |-> 15000, beat_number |-> 2]>>]
SongA ==
    [mood |-> "High",
     phrases |-> <<[beat |-> 1, kind |-> 1], [beat |-> 2, kind |-> 2],
                   [beat |-> 5, kind |-> 5]>>]

\* the grid of another analysis: one beat at 120 bpm
GridB == [beats |-> <<[time |-> 0, tempo |-> 12000, beat_number |-> 1]>>]

GoodFiles ==
    (<<"A", "DAT">> :> AnlzFile(<<[tag |-> "BeatGrid", data |-> GridA]>>))
    @@ (<<"A", "EXT">> :> AnlzFile(<<[tag |-> "SongStructure", data |-> SongA]>>))
    @@ (<<"B", "DAT">> :> AnlzFile(<<[tag |-> "BeatGrid", data |-> GridB]>>))
    @@ (<<"B", "EXT">> :> AnlzFile(<<[tag |-> "SongStructure", data |-> SongA]>>))

\* the host reports one path with '\' separators and one with '/'
PathA == Path("\\", "A", "DAT")
PathB == Path("/", "B", "DAT")
TrackX == [title |-> "X", artist |-> "x", album |-> ""]

\* the error of a failed per-tick read of a slot: Value::read, PointerChainValue::read
ReadFailed(slot, deck) == ReadError("None", <<slot, deck>>, "ReadMemoryFailed")

HeartbeatOff ==
    [bpm |-> FALSE, original_bpm |-> FALSE, beat |-> FALSE, pos |-> FALSE,
     phrase |-> FALSE, anlz_path |-> FALSE, masterdeck_index |-> FALSE,
     track_info |-> FALSE]
HeartbeatOn == [f \in DOMAIN HeartbeatOff |-> TRUE]
HeartbeatOnly(fields) == [f \in DOMAIN HeartbeatOff |-> f \in fields]

Config(decks, keep_warm, heartbeat, slow, very_slow) ==
    [decks |-> decks, keep_warm |-> keep_warm, heartbeat |-> heartbeat,
     slow_update_denominator |-> slow, very_slow_update_denominator |-> very_slow,
     offset_samples |-> 0]

\* host memory: one read result per slot; timing[i] holds the two timing
\* slots of deck i
Timing(position, bpm) == [sample_position |-> position, current_bpm |-> bpm]
Memory(index, timing, infos, paths) ==
    [masterdeck_index |-> index,
     sample_positions |-> [i \in Slots |-> timing[i].sample_position],
     current_bpms |-> [i \in Slots |-> timing[i].current_bpm],
     track_infos |-> infos, anlz_paths |-> paths]

QuietTiming == [i \in Slots |-> Timing(Ok(0), Ok(128000))]
QuietInfos == [i \in Slots |-> Ok(DefaultTrackInfo)]
QuietPaths == [i \in Slots |-> Ok(PathA)]
QuietMemory == Memory(Ok(0), QuietTiming, QuietInfos, QuietPaths)

\* the per-deck arrays in which at most one deck < deckcount departs from
\* base, to one of values
Decks(deckcount) == 0 .. (deckcount - 1)
OneDeparts(base, deckcount, values) ==
    {base} \cup {[base EXCEPT ![d] = v] : d \in Decks(deckcount), v \in values}

\* the per-deck callbacks a heartbeat switch re-dispatches
HeartbeatCallbacks ==
    {"beat_update", "time_update", "bpm_changed", "original_bpm_changed",
     "phrase_changed", "next_phrase_changed", "next_phrase_in",
     "track_changed", "anlz_path_changed"}

\* every chain of the host leads to its first address
QuietHost == [kind \in ValueKinds \cup PointerChainKinds |-> [d \in Slots |-> 1]]

\* the outcome record before the first loop iteration
NoOutcome ==
    [op |-> "start", res |-> "Ok", slow |-> FALSE, very_slow |-> FALSE, err |-> None]

\* ------------------------------------------------ outputmodules::osc::Osc
\* utils::PhraseParser::phrase_name_to_index: the fixed label -> integer table
PhraseNameToIndex(phrase) ==
    CASE phrase = "Intro" -> 1
      [] phrase = "Verse 1" -> 2
      [] phrase = "Up" -> 3
      [] phrase = "Down" -> 4
      [] phrase = "Chorus" -> 5
      [] phrase = "Outro" -> 6
      [] OTHER -> 0

\* a packet handed to the socket: OscMessage { addr, args: vec![type(value)] };
\* the address is kept as its path segments, a float in thousandths
Packet(addr, type, val) == [addr |-> addr, type |-> type, val |-> val]

\* MessageToggles::new with every msg.* key set to on / left at its default
Toggles(on) ==
    [beat |-> on, beat_div_1 |-> on, beat_div_2 |-> on, beat_div_4 |-> on,
     beat_master |-> TRUE, beat_master_div_1 |-> on, beat_master_div_2 |-> on,
     beat_master_div_4 |-> on, time |-> on, time_master |-> TRUE,
     phrase |-> on, phrase_master |-> TRUE]

\* Osc::create: the struct, and nothing sent yet
OscCreate(toggles, format, send_period) ==
    [m |-> [info_sent |-> FALSE,
            message_toggles |-> toggles @@ [phrase_output_format |-> format],
            send_period |-> send_period,
            send_period_counter |-> 0],
     sent |-> <<>>,
     heard |-> [told |-> None, sent |-> None]]

\* conf.get_or_default("send_every_nth", 2), "phrase_output_format" "string"
DefaultOsc ==
    OscCreate(Toggles(FALSE), "string", 2)

\* f32 %: the remainder has the sign of the dividend
Rem(x, y) == IF x >= 0 THEN x % y ELSE 0 - ((0 - x) % y)

\* mutant: the high-rate channels are sent on every tick
MutNeverThrottled(o) == FALSE

\* if self.send_period_counter != 0 { return; }
Throttled(o) == o.m.send_period_counter # 0

\* Osc::output_phrase
OutputPhrase(o, addr, phrase) ==
    CASE o.m.message_toggles.phrase_output_format = "string" -> Packet(addr, "string", phrase)
      [] o.m.message_toggles.phrase_output_format = "int" ->
            Packet(addr, "int", PhraseNameToIndex(phrase))
      [] OTHER -> Packet(addr, "float", PhraseNameToIndex(phrase) * 1000)

\* the packets a callback sends, in order (impl OutputModule for Osc)
OscPackets(o, e) ==
    LET t == o.m.message_toggles IN
    CASE e.cb = "bpm_changed_master" -> <<Packet(<<"bpm", "master", "current">>, "float", e.val)>>
      [] e.cb = "original_bpm_changed_master" ->
            <<Packet(<<"bpm", "master", "original">>, "float", e.val)>>
      [] e.cb = "bpm_changed" ->
            <<Packet(<<"bpm", ToString(e.deck), "current">>, "float", e.val)>>
      [] e.cb = "beat_update_master" ->
            IF Throttled(o) THEN <<>>
            ELSE Cond(t.beat_master, Packet(<<"beat", "master">>, "float", e.val))
              \o Cond(t.beat_master_div_1,
                      Packet(<<"beat", "master", "div1">>, "float", Rem(e.val, BeatUnit)))
              \o Cond(t.beat_master_div_2,
                      Packet(<<"beat", "master", "div2">>, "float", Rem(e.val, 2 * BeatUnit) \div 2))
              \o Cond(t.beat_master_div_4,
                      Packet(<<"beat", "master", "div4">>, "float", Rem(e.val, 4 * BeatUnit) \div 4))
      [] e.cb = "time_update_master" ->
            IF Throttled(o) THEN <<>>
            ELSE Cond(t.time_master, Packet(<<"time", "master">>, "float", e.val))
      [] e.cb = "beat_update" ->
            IF Throttled(o) THEN <<>>
            ELSE Cond(t.beat, Packet(<<"beat", ToString(e.deck)>>, "float", e.val))
              \o Cond(t.beat_div_1,
                      Packet(<<"beat", ToString(e.deck), "div1">>, "float", Rem(e.val, BeatUnit)))
              \o Cond(t.beat_div_2,
                      Packet(<<"beat", ToString(e.deck), "div2">>, "float", Rem(e.val, 2 * BeatUnit)))
              \o Cond(t.beat_div_4,
                      Packet(<<"beat", ToString(e.deck), "div4">>, "float", Rem(e.val, 4 * BeatUnit)))
      [] e.cb = "time_update" ->
            IF Throttled(o) THEN <<>>
            ELSE Cond(t.time, Packet(<<"time", ToString(e.deck)>>, "float", e.val))
      [] e.cb = "track_changed" ->
            <<Packet(<<"track", ToString(e.deck), "title">>, "string", e.val.title),
              Packet(<<"track", ToString(e.deck), "artist">>, "string", e.val.artist),
              Packet(<<"track", ToString(e.deck), "album">>, "string", e.val.album)>>
      [] e.cb = "track_changed_master" ->
            <<Packet(<<"track", "master", "title">>, "string", e.val.title),
              Packet(<<"track", "master", "artist">>, "string", e.val.artist),
              Packet(<<"track", "master", "album">>, "string", e.val.album)>>
      [] e.cb = "anlz_path_changed" ->
            <<Packet(<<"track", ToString(e.deck), "anlz_path">>, "string", e.val)>>
      [] e.cb = "masterdeck_index_changed" ->
            <<Packet(<<"masterdeck", "index">>, "int", e.val)>>
      [] e.cb = "phrase_changed_master" ->
            Cond(t.phrase_master, OutputPhrase(o, <<"phrase", "master", "current">>, e.val))
      [] e.cb = "next_phrase_changed_master" ->
            Cond(t.phrase_master, OutputPhrase(o, <<"phrase", "master", "next">>, e.val))
      [] e.cb = "next_phrase_in_master" ->
            Cond(t.phrase_master, Packet(<<"phrase", "master", "countin">>, "float", e.val * 1000))
      [] e.cb = "phrase_changed" ->
            Cond(t.phrase, OutputPhrase(o, <<"phrase", ToString(e.deck), "current">>, e.val))
      [] e.cb = "next_phrase_changed" ->
            Cond(t.phrase, Packet(<<"phrase", ToString(e.deck), "next">>, "string", e.val))
      [] e.cb = "next_phrase_in" ->
            Cond(t.phrase, Packet(<<"phrase", ToString(e.deck), "countin">>, "float", e.val * 1000))
      [] OTHER -> <<>>

\* Osc::pre_update
OscPreUpdate(o) ==
    [o EXCEPT !.m.send_period_counter = (@ + 1) % o.m.send_period]

\* Osc::slow_update: the first call logs source and destination
OscSlowUpdate(o) ==
    IF o.m.info_sent THEN o
    ELSE [o EXCEPT !.m.info_sent = TRUE,
                   !.sent = @ \o <<Packet(<<"log">>, "info", "Sending")>>]

\* one callback of the module
OscCall(o, e) ==
    CASE e.cb = "pre_update" -> OscPreUpdate(o)
      [] e.cb = "slow_update" -> OscSlowUpdate(o)
      [] OTHER -> [o EXCEPT !.sent = @ \o OscPackets(o, e)]

\* the callbacks a tick made on module 1, the emitter, in the order of the trace
RECURSIVE OscFeed(_, _, _)
OscFeed(o, tr, i) ==
    IF i > Len(tr) THEN o
    ELSE OscFeed(IF tr[i].m = 1 THEN OscCall(o, tr[i]) ELSE o, tr, i + 1)

\* ------------------------------------------------------- setlist module
\* The setlist variable holds the files the module works on (disk: file
\* name -> Option<sequence of lines>), the configured file name (conf), the
\* epoch second of the clock (now), the outcome of Setlist::create (res:
\* "None" before it ran, then "Ok" or "Err"), the module (m) and the lines it
\* logged.  The directory is writable, so File::create and writeln! succeed.
SetlistNames == {"setlist.txt", "gig.txt"}

\* line.parse::<u64>(), over the epoch seconds of the model
ParseU64(line, max) ==
    IF \E t \in 0 .. max : ToString(t) = line
    THEN Ok(CHOOSE t \in 0 .. max : ToString(t) = line)
    ELSE Err("ParseIntError")

\* reader.lines().next() followed by the parse
FirstLine(lines, max) ==
    IF Len(lines) > 0 THEN ParseU64(lines[1], max) ELSE Err("NoLine")

Pad2(x) == IF x < 10 THEN "0" \o ToString(x) ELSE ToString(x)

ToTimestamp(seconds) ==
    Pad2(seconds \div 3600) \o ":" \o Pad2((seconds % 3600) \div 60) \o ":" \o Pad2(seconds % 60)

SetlistNew(filename) ==
    [filename |-> filename, separator |-> " - ", stopped |-> TRUE,
     start_time |-> 0, last_trackinfo |-> None]

SetlistCreate(filename, disk, now, max) ==
    LET opened == disk["setlist.txt"]
        first  == FirstLine(opened.v, max)
    IN  IF opened.some
        THEN IF first.ok
             THEN [res |-> "Ok",
                   m |-> [SetlistNew(filename) EXCEPT !.stopped = FALSE, !.start_time = first.val],
                   disk |-> disk,
                   log |-> <<"Continuing setlist started " \o ToTimestamp(now - first.val) \o " ago">>]
             ELSE [res |-> "Err", m |-> SetlistNew(filename), disk |-> disk,
                   log |-> <<"Failed to start: setlist file exists, but is invalid">>]
        ELSE [res |-> "Ok",
              m |-> [SetlistNew(filename) EXCEPT !.stopped = FALSE, !.start_time = now],
              disk |-> [disk EXCEPT ![filename] = Some(<<ToString(now)>>)],
              log |-> <<"No setlist file found, starting new setlist">>]

SetlistTrackChangedMaster(s, disk, now, track) ==
    IF s.stopped \/ s.last_trackinfo = Some(track)
    THEN [m |-> s, disk |-> disk, log |-> <<>>]
    ELSE [m |-> [s EXCEPT !.last_trackinfo = Some(track)],
          disk |-> IF disk[s.filename].some
                   THEN [disk EXCEPT ![s.filename] =
                            Some(Append(@.v, ToTimestamp(now - s.start_time) \o " " \o track.artist
                                             \o " " \o s.separator \o " " \o track.title))]
                   ELSE disk,
          log |-> IF disk[s.filename].some THEN <<>>
                  ELSE <<"Failed to open setlist file for writing!">>]

NoSetlist ==
    [disk |-> [f \in SetlistNames |-> None], conf |-> "setlist.txt", now |-> 0,
     res |-> "None", m |-> SetlistNew("setlist.txt"), log |-> <<>>]

\* the state when the scheduler loop is entered, for the configurations, the
\* files on disk, the UDP emitters and the setlist modules drawn from the sets
InitModules(configs, files, emitters, lists) ==
    /\ osc \in emitters
    /\ setlist \in lists
    /\ cfg \in configs
    /\ rekordbox = None
    /\ n = 0
    /\ keeper = NewKeeper
    /\ mem = QuietMemory
    /\ fs \in files
    /\ trace = <<>>
    /\ last = NoOutcome
    /\ host = QuietHost
    /\ obs = [quiet |-> [cb \in HeartbeatCallbacks |-> [d \in Slots |-> 0]],
              steady |-> [d \in Slots |-> 0], valid |-> 0,
              err |-> None, reattached |-> FALSE, prev |-> NoOutcome, failed |-> None,
              pending |-> None]

InitFiles(configs, files) == InitModules(configs, files, {DefaultOsc}, {NoSetlist})

InitWith(configs) == InitFiles(configs, {GoodFiles})

AttachErrors ==
    {ReadError("None", <<"process", 0>>, "ProcessNotFound"),
     ReadError("Some", <<"current_bpm", 0>>, "ReadMemoryFailed")}

AttachStep ==
    /\ \E r \in {Ok(0)} \cup {Err(e) : e \in AttachErrors} : Attach(r)
    /\ UNCHANGED obs

\* ---- Spec, the dispatch specification: the master index and the timing
\* samples vary, track infos and ANLZ paths stay put
DispatchTimings ==
    {Timing(Ok(44100), Ok(128000)), Timing(Ok(0), Ok(0))}

DispatchMemories(deckcount) ==
    {Memory(Ok(x), t, QuietInfos, QuietPaths) :
        x \in 0 .. deckcount,
        t \in OneDeparts(QuietTiming, deckcount, DispatchTimings)}

DispatchConfigs ==
    {Config(d, kw, hb, 2, 2) :
        d \in {None} \cup {Some(x) : x \in 1 .. MaxDecks}, kw \in BOOLEAN,
        hb \in {HeartbeatOff, HeartbeatOn, HeartbeatOnly({"bpm", "beat"})}}

Init == InitWith(DispatchConfigs)

DispatchTick ==
    /\ rekordbox.some
    /\ \E m \in DispatchMemories(rekordbox.v.deckcount) : Update(m, MaxTicks)
    /\ UNCHANGED <<obs, osc, setlist>>

Next == AttachStep \/ DispatchTick

Spec == Init /\ [][Next]_vars

\* ------------------------------------------------------ reading the trace
DeckCallbacks ==
    <<"beat_update", "time_update", "bpm_changed", "original_bpm_changed",
      "phrase_changed", "next_phrase_changed", "next_phrase_in">>
MasterCallbacks ==
    <<"beat_update_master", "time_update_master", "bpm_changed_master",
      "original_bpm_changed_master", "phrase_changed_master",
      "next_phrase_changed_master", "next_phrase_in_master">>
Range(seq) == {seq[i] : i \in DOMAIN seq}
IndexOf(seq, x) == CHOOSE i \in DOMAIN seq : seq[i] = x

IsDeckCall(e) == e.cb \in Range(DeckCallbacks)
IsMasterCall(e) == e.cb \in Range(MasterCallbacks)

\* module mod received callback cb for deck d / on the master channel
Got(tr, mod, cb, d) ==
    \E i \in DOMAIN tr : tr[i].cb = cb /\ tr[i].m = mod /\ tr[i].deck = d
GotMaster(tr, mod, cb) ==
    \E i \in DOMAIN tr : tr[i].cb = cb /\ tr[i].m = mod

\* the tracked field behind a per-deck callback, its cell and its heartbeat switch
CellOf(td, cb) ==
    CASE cb \in {"beat_update", "beat_update_master"} -> td.beat_changed
      [] cb \in {"time_update", "time_update_master"} -> td.pos_changed
      [] cb \in {"bpm_changed", "bpm_changed_master"} -> td.bpm_changed
      [] cb \in {"original_bpm_changed", "original_bpm_changed_master"} -> td.original_bpm_changed
      [] cb \in {"phrase_changed", "phrase_changed_master"} -> td.phrase
      [] cb \in {"next_phrase_changed", "next_phrase_changed_master"} -> td.next_phrase
      [] OTHER -> td.next_phrase_in
HeartbeatOf(cb) ==
    CASE cb \in {"beat_update", "beat_update_master"} -> cfg.heartbeat.beat
      [] cb \in {"time_update", "time_update_master"} -> cfg.heartbeat.pos
      [] cb \in {"bpm_changed", "bpm_changed_master"} -> cfg.heartbeat.bpm
      [] cb \in {"original_bpm_changed", "original_bpm_changed_master"} -> cfg.heartbeat.original_bpm
      [] OTHER -> cfg.heartbeat.phrase

\* the deck count Rekordbox::new is given, line 414
DeckCount == GetOrDefault(cfg.decks, DefaultDecksRekordbox)

\* the latest iteration was a tick whose master-deck index read gave a deck
ValidTick ==
    /\ last.op = "update"
    /\ mem.masterdeck_index.ok
    /\ mem.masterdeck_index.val < DeckCount

\* deck d had its Track Tracker run, and return a result, in the latest tick
Processed(d) ==
    /\ ValidTick
    /\ d < GetOrDefault(cfg.decks, DefaultDecksKeeper)
    /\ d < DeckCount
    /\ d = mem.masterdeck_index.val \/ cfg.keep_warm
    /\ mem.sample_positions[d].ok /\ mem.current_bpms[d].ok

\* ------------------------------------------------------------------ C2
\* C2: on every tick, for every processed deck and each of the seven tracked
\* fields, every module gets the field's callback iff the field's cell changed
\* or the tick is very-slow with the field's heartbeat enabled; the same for
\* the master cells and the master deck.
C2_DispatchIffChangedOrHeartbeat ==
    [][\A d \in Slots : \A mod \in Modules : \A f \in DOMAIN DeckCallbacks :
          Processed(d)' =>
            /\ Got(trace', mod, DeckCallbacks[f], d)
               <=> \/ CellOf(keeper'.td_trackers[d], DeckCallbacks[f])
                        # CellOf(keeper.td_trackers[d], DeckCallbacks[f])
                   \/ last'.very_slow /\ HeartbeatOf(DeckCallbacks[f])
            /\ d = mem'.masterdeck_index.val =>
                 (GotMaster(trace', mod, MasterCallbacks[f])
                  <=> \/ CellOf(keeper'.master_td_tracker, MasterCallbacks[f])
                           # CellOf(keeper.master_td_tracker, MasterCallbacks[f])
                      \/ last'.very_slow /\ HeartbeatOf(MasterCallbacks[f]))]_vars

\* a tick that is not very-slow dispatches bpm but not beat for a processed
\* master deck, and a very-slow tick dispatches by heartbeat alone
C2_Witness ==
    \E d \in Slots :
        /\ Processed(d) /\ last.res = "Ok" /\ ~last.very_slow
        /\ d = mem.masterdeck_index.val
        /\ Got(trace, 1, "bpm_changed", d) /\ ~Got(trace, 1, "beat_update", d)
        /\ GotMaster(trace, 2, "bpm_changed_master")
        /\ ~GotMaster(trace, 2, "beat_update_master")

\* ------------------------------------------------------------------ C3
\* the per-deck callbacks one module received, in trace order
DeckCallsOf(tr, mod) == SelectSeq(tr, LAMBDA e : IsDeckCall(e) /\ e.m = mod)

\* every module receives its per-deck callbacks deck by deck in increasing
\* deck index and, within a deck, in the order of the list order
OrderedBy(order) ==
    \A mod \in Modules :
        LET calls == DeckCallsOf(trace, mod) IN
        \A i \in 1 .. (Len(calls) - 1) :
            \/ calls[i].deck < calls[i + 1].deck
            \/ /\ calls[i].deck = calls[i + 1].deck
               /\ IndexOf(order, calls[i].cb) < IndexOf(order, calls[i + 1].cb)

\* C3 as stated: within a tick a module's per-deck events of one deck come in
\* the order bpm, original_bpm, beat, time, phrase, next_phrase,
\* next_phrase_in, decks in increasing index.
C3_SpecFieldOrder ==
    OrderedBy(<<"bpm_changed", "original_bpm_changed", "beat_update", "time_update",
                "phrase_changed", "next_phrase_changed", "next_phrase_in">>)

\* C3 amended: the order within a deck is beat, time, bpm, original_bpm,
\* phrase, next_phrase, next_phrase_in; decks in increasing index.
C3_CodeFieldOrder == OrderedBy(DeckCallbacks)

\* a module received all seven callbacks for deck 0 and some for deck 1
C3_Witness ==
    /\ last.op = "update"
    /\ \A f \in DOMAIN DeckCallbacks : Got(trace, 1, DeckCallbacks[f], 0)
    /\ Got(trace, 1, "beat_update", 1) /\ Got(trace, 1, "bpm_changed", 1)

\* ------------------------------------------------------------------ C4
MasterPositions == {i \in DOMAIN trace : IsMasterCall(trace[i])}
DeckPositions == {i \in DOMAIN trace : IsDeckCall(trace[i])}

\* C4 as stated: within a tick no per-deck event of any deck is dispatched
\* after a master-channel event.
C4_MasterAfterAllDecks ==
    \A i \in MasterPositions : \A j \in DeckPositions : j < i

\* C4 amended: the master-channel events of a tick follow the per-deck events
\* of the master deck and of every lower deck, and precede the per-deck
\* events of every higher deck.
C4_MasterAfterItsDeck ==
    ValidTick =>
        \A i \in MasterPositions : \A j \in DeckPositions :
            (j < i) <=> (trace[j].deck <= mem.masterdeck_index.val)

\* master-channel events with per-deck events on both sides
C4_Witness ==
    /\ ValidTick
    /\ \E i \in MasterPositions : \E j, k \in DeckPositions : j < i /\ i < k

\* ------------------------------------------------------------------ C5
\* the phase of a trace entry within a tick; log lines belong to no phase
Phase(e) ==
    CASE e.cb = "pre_update" -> 0
      [] IsDeckCall(e) \/ IsMasterCall(e) -> 1
      [] e.cb = "track_changed" -> 2
      [] e.cb \in {"anlz_path_changed", "unwatch", "watch", "read"} -> 3
      [] e.cb = "slow_update" -> 4
      [] e.cb = "masterdeck_index_changed" -> 5
      [] e.cb = "track_changed_master" -> 6
      [] OTHER -> 7
Phased(tr) == SelectSeq(tr, LAMBDA e : Phase(e) < 7)
AnlzOf(tr) == SelectSeq(tr, LAMBDA e : Phase(e) = 3)

\* C5: within a tick pre_update on all modules precedes every other callback,
\* and on a slow tick the phases follow in the order track_changed, ANLZ path
\* dispatch and reload deck by deck, slow_update, masterdeck_index_changed,
\* track_changed_master; a tick that is not slow has none of the slow phases.
C5_PhaseOrder ==
    last.op = "update" =>
        LET calls == Phased(trace)
            anlz == AnlzOf(trace)
        IN /\ \A i \in 1 .. (Len(calls) - 1) : Phase(calls[i]) <= Phase(calls[i + 1])
           /\ Len(calls) > 0 =>
                \A mod \in Modules : calls[mod].cb = "pre_update" /\ calls[mod].m = mod
           /\ \A i \in 1 .. (Len(anlz) - 1) :
                \/ anlz[i].deck < anlz[i + 1].deck
                \/ /\ anlz[i].deck = anlz[i + 1].deck
                   /\ anlz[i + 1].cb = "anlz_path_changed" => anlz[i].cb = "anlz_path_changed"
           /\ ~last.slow => \A i \in DOMAIN calls : Phase(calls[i]) \notin {2, 3, 4}

\* a slow tick that went through every phase
C5_Witness ==
    /\ last.op = "update" /\ last.slow /\ last.res = "Ok"
    /\ \A ph \in 0 .. 6 : \E i \in DOMAIN trace : Phase(trace[i]) = ph
    /\ \E i \in DOMAIN trace : trace[i].cb = "read" /\ trace[i].deck = 0

\* ------------------------------------------------------------------ C8
\* the value a master-channel callback carries when it mirrors tracker td
MirrorOf(td, cb) ==
    IF cb = "time_update_master" THEN Seconds(td.pos_changed) ELSE CellOf(td, cb)

\* C8: the master-channel cells are updated, and the master-channel callbacks
\* invoked, only with the tracker result of the deck whose index is the
\* master-deck index read in the same tick.
C8_MasterMirrorsMasterDeck ==
    [][\A master \in Slots : (ValidTick' /\ master = mem'.masterdeck_index.val) =>
          /\ \A i \in DOMAIN trace' :
                IsMasterCall(trace'[i]) =>
                    /\ Processed(master)'
                    /\ trace'[i].val = MirrorOf(keeper'.td_trackers[master], trace'[i].cb)
          /\ keeper'.master_td_tracker # keeper.master_td_tracker =>
                /\ Processed(master)'
                /\ keeper'.master_td_tracker = keeper'.td_trackers[master]]_vars

\* deck 1 is the master deck, deck 0 was processed with another result, and
\* the master channel fired
C8_Witness ==
    /\ ValidTick /\ mem.masterdeck_index.val = 1
    /\ Processed(0) /\ Processed(1)
    /\ keeper.td_trackers[0].pos_changed # keeper.td_trackers[1].pos_changed
    /\ GotMaster(trace, 1, "time_update_master")
    /\ keeper.master_td_tracker = keeper.td_trackers[1]

\* ------------------------------------------------------------------ C9
\* the latest iteration was a tick whose index read gave no deck
ShortCircuit ==
    /\ last.op = "update"
    /\ mem.masterdeck_index.ok
    /\ mem.masterdeck_index.val >= DeckCount

\* C9: a tick whose master-deck index read is >= deckCount returns Ok, invokes
\* no module callback and leaves the per-deck cells, the master cells, the
\* track infos, the ANLZ paths, the ANLZ caches and the watcher unchanged.
C9_ShortCircuitIsSilent ==
    [][ShortCircuit' =>
          /\ last'.res = "Ok"
          /\ trace' = <<>>
          /\ keeper'.td_trackers = keeper.td_trackers
          /\ keeper'.master_td_tracker = keeper.master_td_tracker
          /\ keeper'.track_infos = keeper.track_infos
          /\ keeper'.anlz_paths = keeper.anlz_paths
          /\ keeper'.track_trackers = keeper.track_trackers
          /\ keeper'.watcher = keeper.watcher]_vars

\* a short-circuited tick after a tick that had filled the cells
C9_Witness ==
    /\ ShortCircuit /\ mem.masterdeck_index.val = DeckCount
    /\ keeper.td_trackers[0] # NewTrackingDataTracker
    /\ keeper.anlz_paths[0] # EmptyPath
    /\ n > 1

\* --------------------------------------------------- SpecFaults: C1, C10
\* every per-tick read can fail, and track infos change: the memories in
\* which the timing samples depart from the quiet ones, or the track infos
\* and the ANLZ paths do
FaultIndexes ==
    {Ok(0), Ok(1), Err(ReadFailed("masterdeck_index", 0))}

FaultTimingsOf(d) ==
    {Timing(Err(ReadFailed("sample_position", d)), Ok(128000)),
     Timing(Ok(44100), Err(ReadFailed("current_bpm", d)))}

FaultTimings(deckcount) ==
    {QuietTiming}
    \cup UNION {{[QuietTiming EXCEPT ![d] = t] : t \in FaultTimingsOf(d)} :
                  d \in Decks(deckcount)}

FaultInfosOf(d) == {Ok(TrackX), Err(ReadFailed("track_info", d))}

FaultInfos(deckcount) ==
    {QuietInfos}
    \cup UNION {{[QuietInfos EXCEPT ![d] = t] : t \in FaultInfosOf(d)} :
                  d \in Decks(deckcount)}

FaultPaths(deckcount) ==
    {QuietPaths}
    \cup {[QuietPaths EXCEPT ![d] = Err(ReadFailed("anlz_path", d))] : d \in Decks(deckcount)}

FaultMemories(deckcount) ==
    {Memory(x, t, QuietInfos, QuietPaths) :
        x \in FaultIndexes, t \in FaultTimings(deckcount)}
    \cup {Memory(x, QuietTiming, i, p) :
        x \in FaultIndexes, i \in FaultInfos(deckcount), p \in FaultPaths(deckcount)}

FaultConfigs ==
    {Config(Some(d), kw, HeartbeatOff, 1, 2) : d \in 1 .. MaxDecks, kw \in BOOLEAN}

InitFaults == InitWith(FaultConfigs)

FaultTick ==
    /\ rekordbox.some
    /\ \E m \in FaultMemories(rekordbox.v.deckcount) : Update(m, MaxTicks)
    /\ UNCHANGED <<obs, osc, setlist>>

NextFaults == AttachStep \/ FaultTick

SpecFaults == InitFaults /\ [][NextFaults]_vars

\* ------------------------------------------------------------------ C1
\* deck d had its timing sample read in the latest tick
TimingRead(d) ==
    /\ ValidTick
    /\ d < GetOrDefault(cfg.decks, DefaultDecksKeeper)
    /\ d = mem.masterdeck_index.val \/ cfg.keep_warm

\* a read the latest tick made has failed
TickReadFailed ==
    /\ last.op = "update"
    /\ \/ ~mem.masterdeck_index.ok
       \/ \E d \in Slots :
            TimingRead(d) /\ ~(mem.sample_positions[d].ok /\ mem.current_bpms[d].ok)
       \/ /\ ValidTick /\ last.slow
          /\ \E d \in Decks(DeckCount) : ~mem.track_infos[d].ok \/ ~mem.anlz_paths[d].ok

\* C1: a tick in which a memory read fails (the master-deck index, a timing
\* sample of a deck, the track infos or the ANLZ paths) ends with update
\* returning an error and the scheduler unattached.
C1_FailedReadDetaches ==
    TickReadFailed => (last.res = "Err" /\ ~rekordbox.some)

\* ------------------------------------------------------------------ C10
\* C10: whenever a tick changes the stored track info of the master deck,
\* every module receives track_changed for that deck and track_changed_master,
\* the latter with the new track info.
C10_MasterTrackChangeReachesMaster ==
    [][\A master \in Slots :
          (/\ ValidTick' /\ master = mem'.masterdeck_index.val
           /\ keeper'.track_infos[master] # keeper.track_infos[master]) =>
              \A mod \in Modules :
                 /\ Got(trace', mod, "track_changed", master)
                 /\ \E i \in DOMAIN trace' :
                       /\ trace'[i].cb = "track_changed_master"
                       /\ trace'[i].m = mod
                       /\ trace'[i].val = keeper'.track_infos[master]]_vars

\* ------------------------------------------------ SpecHeartbeat: C6, C7
\* the values in memory hardly move, the two denominators vary, and the
\* observer counts ticks
MaxHeartbeatTicks == 5

HeartbeatMemories(deckcount) ==
    {Memory(Ok(x), t, QuietInfos, QuietPaths) :
        x \in {0, deckcount},
        t \in {QuietTiming,
               [QuietTiming EXCEPT ![0] = Timing(Ok(44100), Ok(128000))],
               [QuietTiming EXCEPT ![0] = Timing(Err(ReadFailed("sample_position", 0)),
                                                 Ok(128000))]}}

HeartbeatConfigs ==
    {Config(Some(d), kw, HeartbeatOn, p[1], p[2]) :
        d \in 1 .. MaxDecks, kw \in BOOLEAN, p \in {<<1, 2>>, <<2, 3>>}}

\* the longest a slow-tick heartbeat can be apart: a very-slow tick latches
\* the flag, the first slow tick from there on consumes it
SlowWindow == cfg.very_slow_update_denominator + cfg.slow_update_denominator - 1

Capped(x) == IF x < SlowWindow THEN x + 1 ELSE x

\* what the observer holds after a loop iteration. Over the completed ticks
\* (update returned Ok): quiet[cb][d], how many have gone by since cb was last
\* dispatched for deck d; steady[d], how many in a row have processed deck d;
\* valid, how many in a row had a master-deck index below deckCount
Observe ==
    obs' =
      [quiet |-> [cb \in HeartbeatCallbacks |-> [d \in Slots |->
                    IF last'.op = "update" /\ (\A mod \in Modules : Got(trace', mod, cb, d))
                    THEN 0
                    ELSE IF last'.op = "update" /\ last'.res = "Ok"
                    THEN Capped(obs.quiet[cb][d])
                    ELSE obs.quiet[cb][d]]],
       steady |-> [d \in Slots |->
                    IF last'.op = "update" /\ last'.res = "Ok"
                    THEN IF Processed(d)' THEN Capped(obs.steady[d]) ELSE 0
                    ELSE obs.steady[d]],
       valid |-> IF last'.op = "update" /\ last'.res = "Ok"
                 THEN IF ValidTick' THEN Capped(obs.valid) ELSE 0
                 ELSE obs.valid,
       err |-> obs.err, reattached |-> obs.reattached, prev |-> obs.prev,
       failed |-> obs.failed, pending |-> obs.pending]

InitHeartbeat == InitWith(HeartbeatConfigs)

HeartbeatTick ==
    /\ rekordbox.some
    /\ \E m \in HeartbeatMemories(rekordbox.v.deckcount) : Update(m, MaxHeartbeatTicks)
    /\ Observe
    /\ UNCHANGED <<osc, setlist>>

NextHeartbeat == AttachStep \/ HeartbeatTick

SpecHeartbeat == InitHeartbeat /\ [][NextHeartbeat]_vars

\* ------------------------------------------------------------------ C6
\* the callbacks of the seven fields tracked on every tick, and of the two
\* tracked on slow ticks
SlowCallbacks == {"track_changed", "anlz_path_changed"}
TickCallbacks == HeartbeatCallbacks \ SlowCallbacks

HeartbeatEnabled(cb) ==
    CASE cb = "track_changed" -> cfg.heartbeat.track_info
      [] cb = "anlz_path_changed" -> cfg.heartbeat.anlz_path
      [] OTHER -> HeartbeatOf(cb)

Redispatch(d) ==
    /\ last'.op = "update"
    /\ \/ /\ \E i \in DOMAIN trace' : trace'[i].cb = "track_changed" /\ trace'[i].deck = d
          /\ keeper'.track_infos[d] = keeper.track_infos[d]
       \/ /\ \E i \in DOMAIN trace' : trace'[i].cb = "anlz_path_changed" /\ trace'[i].deck = d
          /\ keeper'.anlz_paths[d] = keeper.anlz_paths[d]

RECURSIVE Attempted(_)
Attempted(d) ==
    /\ ValidTick
    /\ d < GetOrDefault(cfg.decks, DefaultDecksKeeper)
    /\ d = mem.masterdeck_index.val \/ cfg.keep_warm
    /\ \A e \in 0 .. (d - 1) : Attempted(e) => e < DeckCount

\* C16: for every configuration, keeper.decks unset included, every deck the
\* Track Tracker runs for lies in [0, deckCount) of the Host Snapshot, and no
\* tick ends in an index out of range.
C16_TrackerStaysInRange ==
    /\ \A d \in Slots : Attempted(d) => d < DeckCount
    /\ last.res # "Panic"

\* ------------------------------------------------------------------ C17
\* the cells of deck d hold what the tick read for it
Fed(d) ==
    /\ keeper.td_trackers[d].pos_changed = mem.sample_positions[d].val
    /\ keeper.td_trackers[d].bpm_changed = CoerceBpm(mem.current_bpms[d].val)

\* C17: with keep_warm disabled a tick dispatches no per-deck callback for a
\* deck other than the master deck and leaves its cells unchanged; with
\* keep_warm enabled a tick that is not short-circuited feeds the cells of
\* every deck below deckCount whose timing read succeeded.
C17_KeepWarmGatesDecks ==
    [][\A d \in Slots :
          /\ (ValidTick' /\ ~cfg.keep_warm /\ d # mem'.masterdeck_index.val) =>
                /\ keeper'.td_trackers[d] = keeper.td_trackers[d]
                /\ \A i \in DOMAIN trace' : IsDeckCall(trace'[i]) => trace'[i].deck # d
          /\ (ValidTick' /\ cfg.keep_warm /\ d < DeckCount
                /\ mem'.sample_positions[d].ok /\ mem'.current_bpms[d].ok) =>
                Fed(d)']_vars

\* keep_warm is off, deck 1 is the master deck and moved, deck 0 kept the cells
\* of an earlier tick in which it was the master deck
C17_Witness ==
    /\ ValidTick /\ ~cfg.keep_warm /\ mem.masterdeck_index.val = 1
    /\ Got(trace, 1, "time_update", 1)
    /\ keeper.td_trackers[0].bpm_changed = 128000
    /\ keeper.td_trackers[0].pos_changed # mem.sample_positions[0].val

\* ------------------------------------------------------------------ C20
\* C20: when the host reports current_bpm = 0 for a processed deck, the bpm
\* cell of the deck, and that of the master channel for the master deck, hold
\* the raw 0, and bpm_changed carries the raw 0.
C20_ZeroBpmReportedRaw ==
    \A d \in Slots :
        (Processed(d) /\ last.res = "Ok" /\ mem.current_bpms[d].val = 0) =>
            /\ keeper.td_trackers[d].bpm_changed = 0
            /\ d = mem.masterdeck_index.val => keeper.master_td_tracker.bpm_changed = 0
            /\ \A i \in DOMAIN trace :
                  (trace[i].cb \in {"bpm_changed", "bpm_changed_master"}
                     /\ (trace[i].cb = "bpm_changed" => trace[i].deck = d))
                  => trace[i].val = 0

\* ------------------------------------------------------------------ C19
\* the error lines among the log lines of a loop iteration
ErrorReports(tr) ==
    SelectSeq(tr, LAMBDA e : e.cb = "log_err" /\ e.val # "Connection to Rekordbox lost")

\* ------------------------------------------- SpecErrors: C18, C19
\* attach attempts and ticks fail and succeed in any order; the observer
\* holds the outcome of the loop iteration before the latest one, the last
\* error the loop had handed to report_error before the latest iteration,
\* and whether an attach had succeeded since that error
ErrorMemories ==
    {Memory(x, QuietTiming, i, QuietPaths) :
        x \in {Ok(0), Ok(1), Err(ReadFailed("masterdeck_index", 0))},
        i \in {QuietInfos,
               [QuietInfos EXCEPT ![0] = Ok(TrackX)],
               [QuietInfos EXCEPT ![0] = Err(ReadFailed("track_info", 0))]}}

ErrorConfigs ==
    {Config(Some(d), kw, HeartbeatOff, 1, 2) : d \in 1 .. MaxDecks, kw \in BOOLEAN}

\* the iteration called masterdeck_index_changed(idx) and track_changed_master
MasterAnnounced(tr, idx) ==
    /\ \E i \in DOMAIN tr : tr[i].cb = "masterdeck_index_changed" /\ tr[i].val = idx
    /\ \E i \in DOMAIN tr : tr[i].cb = "track_changed_master"

\* the change of the index cell an iteration leaves unannounced: the cell
\* went from before to after, a deck below deckcount, without the dispatch
Outstanding(pending, before, after, deckcount, tr) ==
    IF MasterAnnounced(tr, after) THEN None
    ELSE IF after = before THEN pending
    ELSE IF after < deckcount THEN Some(after)
    ELSE None

ObserveErrors ==
    obs' = [obs EXCEPT
              !.pending = Outstanding(@, keeper.masterdeck_index, keeper'.masterdeck_index,
                                      DeckCount, trace'),
              !.prev = last,
              !.failed = IF last.op = "update" /\ last.res = "Err" THEN Some(last) ELSE @,
              !.err = IF last.res = "Err" THEN last.err ELSE @,
              !.reattached = IF last.res = "Err" THEN FALSE
                             ELSE IF last.op = "attach" THEN TRUE ELSE @]

InitErrors == InitWith(ErrorConfigs)

ErrorAttachStep ==
    /\ \E r \in {Ok(0)} \cup {Err(e) : e \in AttachErrors} : Attach(r)
    /\ ObserveErrors

ErrorTick ==
    /\ rekordbox.some
    /\ \E m \in ErrorMemories : Update(m, MaxTicks)
    /\ ObserveErrors
    /\ UNCHANGED <<osc, setlist>>

NextErrors == ErrorAttachStep \/ ErrorTick

SpecErrors == InitErrors /\ [][NextErrors]_vars

\* the latest loop iteration ended in an error equal to the last error
\* reported to the scheduler before it
RepeatedError ==
    /\ last.res = "Err"
    /\ last.err = obs.err

\* C18 as stated: of two consecutive equal errors, from attach attempts or
\* from ticks, the second produces no error report.
C18_RepeatedErrorNotReported ==
    RepeatedError => ErrorReports(trace) = <<>>

\* C18 amended: an error is not reported exactly when it equals the last
\* error handed to report_error and no attach has succeeded in between (a
\* successful attach clears the remembered error); every other error is
\* reported with one error line.
C18_RepeatedErrorNotReportedUnlessReattached ==
    last.res = "Err" =>
        IF RepeatedError /\ ~obs.reattached
        THEN ErrorReports(trace) = <<>> /\ keeper.last_error = last.err
        ELSE Len(ErrorReports(trace)) = 1 /\ keeper.last_error = last.err

\* a tick failed with the error the failed tick before it had, the attach
\* between them having succeeded, and the error was reported again
C18_Witness ==
    /\ last.op = "update" /\ RepeatedError /\ obs.reattached
    /\ obs.prev.op = "attach" /\ obs.prev.res = "Ok"
    /\ Len(ErrorReports(trace)) = 1

\* the latest two loop iterations are attach attempts that failed with equal
\* errors
RepeatedAttachFailure ==
    /\ obs.prev.op = "attach" /\ obs.prev.res = "Err"
    /\ last.op = "attach" /\ last.res = "Err"
    /\ last.err = obs.prev.err

\* C19 as stated: the second of two identical consecutive attach failures
\* logs nothing.
C19_RepeatedAttachFailureLogsNothing ==
    RepeatedAttachFailure => trace = <<>>

\* C19 amended: the second of two identical consecutive attach failures logs
\* no error message: all it logs is the progress line "..." at info level.
C19_RepeatedAttachFailureLogsNoError ==
    RepeatedAttachFailure =>
        /\ ErrorReports(trace) = <<>>
        /\ trace = <<Op("log_info", "...")>>
        /\ keeper.last_error = last.err

\* an attach attempt failed as the one before it had
C19_Witness ==
    /\ RepeatedAttachFailure
    /\ trace = <<Op("log_info", "...")>>

\* -------------------------------------------- SpecAnlz: C11 .. C14
\* the decks' ANLZ paths switch between two tracks while the files on disk
\* are rewritten, removed and corrupted; a change of a watched file puts an
\* event on the watcher channel
MaxEvents == 1

AnlzMemories ==
    {Memory(Ok(0), QuietTiming, QuietInfos,
            [i \in Slots |-> Ok(IF i = 0 THEN p0 ELSE p1)]) :
        p0 \in {PathA, PathB}, p1 \in {PathA, PathB}}

AnlzConfigs == {Config(Some(d), FALSE, HeartbeatOff, 1, 2) : d \in 1 .. MaxDecks}

\* what a file can hold after a write: the files of track A are re-analysed,
\* corrupted and removed, the files of track B stay as they are
FileVersions(key) ==
    IF key = <<"A", "DAT">>
    THEN {AnlzFile(<<[tag |-> "BeatGrid", data |-> GridA]>>),
          AnlzFile(<<[tag |-> "BeatGrid", data |-> GridB]>>), Garbage}
    ELSE IF key = <<"A", "EXT">>
    THEN {AnlzFile(<<[tag |-> "SongStructure", data |-> SongA]>>), Missing}
    ELSE {}

\* the notify callback: tx.send(event) for a change of a watched path; the
\* event carries the path with the separators the operating system reports
WatcherEvents(w, key) ==
    {Ok([paths |-> <<Path(sep, key[1], key[2])>>]) :
        sep \in {sep \in {"\\", "/"} : \E p \in w : p.stem = key[1] /\ p.ext = key[2]}}

InitAnlz == InitWith(AnlzConfigs)

AnlzAttachStep ==
    /\ Attach(Ok(0))
    /\ UNCHANGED obs

AnlzTick ==
    /\ rekordbox.some
    /\ \E m \in AnlzMemories : Update(m, MaxTicks)
    /\ UNCHANGED <<obs, osc, setlist>>

\* a file on disk is written or removed, unseen by the watcher
FileChange ==
    /\ \E key \in DOMAIN fs : \E file \in FileVersions(key) \ {fs[key]} :
          /\ WatcherEvents(keeper.watcher, key) = {}
          /\ fs' = [fs EXCEPT ![key] = file]
    /\ UNCHANGED <<cfg, rekordbox, n, keeper, mem, trace, last, obs, host, osc, setlist>>

\* a watched file on disk is written or removed
WatchedFileChange ==
    /\ Len(keeper.watcher_rx) < MaxEvents
    /\ \E key \in DOMAIN fs : \E file \in FileVersions(key) \ {fs[key]} :
       \E event \in WatcherEvents(keeper.watcher, key) :
          /\ fs' = [fs EXCEPT ![key] = file]
          /\ keeper' = [keeper EXCEPT !.watcher_rx = Append(@, event)]
    /\ UNCHANGED <<cfg, rekordbox, n, mem, trace, last, obs, host, osc, setlist>>

NextAnlz == AnlzAttachStep \/ AnlzTick \/ FileChange \/ WatchedFileChange

SpecAnlz == InitAnlz /\ [][NextAnlz]_vars

\* the watcher and file operations of deck d in a tick, in program order
DeckFileOps(tr, d) ==
    SelectSeq(tr, LAMBDA e : e.cb \in {"unwatch", "watch", "read"} /\ e.deck = d)

\* position i of the trace is the watcher or file operation cb of deck d on path
FileOpAt(tr, i, cb, d, path) == tr[i].cb = cb /\ tr[i].deck = d /\ tr[i].val = path

ReloadFailureLines ==
    {"Failed to read anlz file", "Failed to parse DAT file",
     "Failed to read EXT file", "Failed to parse EXT file"}

\* position j of the trace is the failure of a read of deck d's ANLZ files
ReloadFailedAt(tr, d, j) ==
    /\ j > 1
    /\ tr[j].cb = "log_err" /\ tr[j].val \in ReloadFailureLines
    /\ tr[j - 1].cb = "read" /\ tr[j - 1].deck = d

ReloadFailed(tr, d) == \E j \in DOMAIN tr : ReloadFailedAt(tr, d, j)

\* C11: if reading or parsing the .DAT or the .EXT file fails during a
\* deck's reload, the deck's cached beat grid and song structure are what
\* they were before the tick.
C11_FailedReloadKeepsCache ==
    [][\A d \in Slots :
          (last'.op = "update" /\ ReloadFailed(trace', d)) =>
              keeper'.track_trackers[d] = keeper.track_trackers[d]]_vars

\* C12: a read or parse failure of one deck's ANLZ files does not fail the
\* tick: update returns Ok, every deck's path is still compared, stored and,
\* where it switched, its files read, and slow_update is called on every
\* module after the failure.
C12_FailedReloadDoesNotFailTick ==
    \A d \in Slots : \A j \in DOMAIN trace :
        (last.op = "update" /\ ReloadFailedAt(trace, d, j)) =>
            /\ last.res = "Ok"
            /\ \A mod \in Modules : \E i \in DOMAIN trace :
                  i > j /\ trace[i].cb = "slow_update" /\ trace[i].m = mod
            /\ \A e \in Decks(DeckCount) :
                  /\ keeper.anlz_paths[e] = mem.anlz_paths[e].val
                  /\ DeckFileOps(trace, e) # <<>> =>
                        \E i \in DOMAIN trace : FileOpAt(trace, i, "read", e, mem.anlz_paths[e].val)

\* the read of deck 0's files failed, deck 1's path switched and its files
\* were read after the failure, and the tick returned Ok
C12_Witness ==
    /\ last.op = "update" /\ last.res = "Ok"
    /\ \E j \in DOMAIN trace :
          /\ ReloadFailedAt(trace, 0, j)
          /\ \E i \in DOMAIN trace : i > j /\ FileOpAt(trace, i, "watch", 1, PathB)
          /\ \E i \in DOMAIN trace : i > j /\ FileOpAt(trace, i, "read", 1, PathB)
    /\ keeper.anlz_paths[1] = PathB

\* C13: when the host-reported path of a deck changes from A to B on a slow
\* tick, the deck's watcher and file operations are, in order: unwatch A,
\* unwatch A's .EXT, watch B, watch B's .EXT, read B; the stored path is B
\* after the tick.
C13_SwitchUnwatchesThenWatchesThenReads ==
    [][\A d \in Slots : \A B \in {PathA, PathB} :
          (ValidTick' /\ last'.slow /\ last'.res = "Ok" /\ d < DeckCount
             /\ B = mem'.anlz_paths[d].val /\ keeper.anlz_paths[d] # B) =>
              /\ keeper'.anlz_paths[d] = B
              /\ \E ops \in {DeckFileOps(trace', d)} :
                    /\ Len(ops) >= 5
                    /\ SubSeq(ops, 1, 5) =
                          <<Call("unwatch", d, keeper.anlz_paths[d]),
                            Call("unwatch", d, ReplaceDatExt(keeper.anlz_paths[d])),
                            Call("watch", d, B),
                            Call("watch", d, ReplaceDatExt(B)),
                            Call("read", d, B)>>]_vars

\* deck 0 switched from track A to track B: A unwatched, B watched, B read
C13_Witness ==
    /\ ValidTick /\ last.res = "Ok"
    /\ keeper.anlz_paths[0] = PathB
    /\ DeckFileOps(trace, 0) =
          <<Call("unwatch", 0, PathA), Call("unwatch", 0, ReplaceDatExt(PathA)),
            Call("watch", 0, PathB), Call("watch", 0, ReplaceDatExt(PathB)),
            Call("read", 0, PathB), Call("read", 0, ReplaceDatExt(PathB))>>
    /\ {PathB, ReplaceDatExt(PathB)} \subseteq keeper.watcher

SameUpToSeparators(p, q) == NormalizeSeparators(p) = NormalizeSeparators(q)

\* C14: a watcher event whose path equals a deck's host-reported ANLZ path,
\* or its .EXT sibling, up to the separators marks the deck for reload on the
\* next slow tick: the tick reads the deck's files.
C14_EventMatchesUpToSeparators ==
    [][\A d \in Slots :
          (ValidTick' /\ last'.slow /\ last'.res = "Ok" /\ d < DeckCount
             /\ \E j \in DOMAIN keeper.watcher_rx :
                   /\ keeper.watcher_rx[j].ok
                   /\ \/ SameUpToSeparators(keeper.watcher_rx[j].val.paths[1],
                                            mem'.anlz_paths[d].val)
                      \/ SameUpToSeparators(keeper.watcher_rx[j].val.paths[1],
                                            ReplaceDatExt(mem'.anlz_paths[d].val))) =>
              \E i \in DOMAIN trace' : trace'[i].cb = "read" /\ trace'[i].deck = d]_vars

\* ------------------------------------------------ SpecPointers: C15
\* the host moves what its pointer chains lead to (it reallocates a deck's
\* player object) while the program is attached; every tick reads the slots
\* through the Rekordbox struct built at attach
HostAddresses == {1, 2}

\* what the host memory holds at an address a chain of the kind can lead to
HostData(kind, address) ==
    CASE kind = "masterdeck_index" -> address - 1
      [] kind = "current_bpm" -> IF address = 1 THEN 128000 ELSE 140000
      [] kind = "sample_position" -> IF address = 1 THEN 0 ELSE SampleRate
      [] kind = "track_info" -> IF address = 1 THEN DefaultTrackInfo ELSE TrackX
      [] OTHER -> IF address = 1 THEN PathA ELSE PathB

\* Value::read: read::<T>(self.handle, self.address)
ValueRead(kind, address) == Ok(HostData(kind, address))

\* PointerChainValue::read: Value::new(handle, base, &pointer)?.read()
PointerChainValueRead(h, kind, deck) == ValueRead(kind, ValueNew(h, kind, deck).address)

\* what the reads of one tick return from the host h through the struct rb
Snapshot(h, rb) ==
    Memory(ValueRead("masterdeck_index", rb.address["masterdeck_index"][0]),
           [i \in Slots |->
               Timing(ValueRead("sample_position", rb.address["sample_position"][i]),
                      ValueRead("current_bpm", rb.address["current_bpm"][i]))],
           [i \in Slots |-> PointerChainValueRead(h, "track_info", i)],
           [i \in Slots |-> PointerChainValueRead(h, "anlz_path", i)])

PointerConfigs == {Config(Some(2), kw, HeartbeatOff, 1, 2) : kw \in BOOLEAN}

InitPointers == InitWith(PointerConfigs)

PointerAttachStep ==
    /\ Attach(Ok(0))
    /\ UNCHANGED obs

PointerTick ==
    /\ rekordbox.some
    /\ Update(Snapshot(host, rekordbox.v), MaxTicks)
    /\ UNCHANGED <<obs, osc, setlist>>

\* the host rewrites the intermediate cell of one chain of deck 0
HostMoves ==
    /\ \E kind \in ValueKinds \cup PointerChainKinds :
       \E address \in HostAddresses \ {host[kind][0]} :
          host' = [host EXCEPT ![kind][0] = address]
    /\ UNCHANGED <<cfg, rekordbox, n, keeper, mem, fs, trace, last, obs, osc, setlist>>

NextPointers == PointerAttachStep \/ PointerTick \/ HostMoves

SpecPointers == InitPointers /\ [][NextPointers]_vars

\* the value the chain of the slot leads to in the host h
Current(h, kind, deck) == Ok(HostData(kind, h[kind][deck]))

\* C15: every read of every observable slot re-resolves its pointer chain:
\* what a completed tick read from each slot is the value the slot's chain
\* leads to at that tick, whatever address it led to at attach.
C15_EveryReadFollowsTheChain ==
    [][n' = n + 1 =>
          /\ mem'.masterdeck_index = Current(host', "masterdeck_index", 0)
          /\ \A d \in Decks(DeckCount) :
                /\ mem'.current_bpms[d] = Current(host', "current_bpm", d)
                /\ mem'.sample_positions[d] = Current(host', "sample_position", d)
                /\ mem'.track_infos[d] = Current(host', "track_info", d)
                /\ mem'.anlz_paths[d] = Current(host', "anlz_path", d)]_vars

\* ------------------------------------------- SpecTracker: C21 .. C24
\* one deck plays a track whose beat grid and song structure are drawn from
\* small sets; every tick reads a sample position and feeds the tracker's
\* result into the deck's cells
GridC ==
    [beats |-> <<[time |-> 0, tempo |-> 12800, beat_number |-> 1],
                 [time |-> 469, tempo |-> 12800, beat_number |-> 2],
                 [time |-> 938, tempo |-> 12800, beat_number |-> 3]>>]
GridD ==
    [beats |-> <<[time |-> 500, tempo |-> 12000, beat_number |-> 4],
                 [time |-> 1000, tempo |-> 12000, beat_number |-> 1],
                 [time |-> 1500, tempo |-> 12000, beat_number |-> 2]>>]
SongB ==
    [mood |-> "Mid", phrases |-> <<[beat |-> 2, kind |-> 1], [beat |-> 3, kind |-> 9]>>]

\* the analysis of a track in which no beat and no phrase was found
GridEmpty == [beats |-> <<>>]
SongEmpty == [mood |-> "High", phrases |-> <<>>]

TrackerFiles ==
    {[GoodFiles EXCEPT ![<<"A", "DAT">>] = AnlzFile(<<[tag |-> "BeatGrid", data |-> g]>>),
                       ![<<"A", "EXT">>] = AnlzFile(<<[tag |-> "SongStructure", data |-> s]>>)] :
        g \in {GridA, GridC, GridD, GridEmpty}, s \in {SongA, SongB, SongEmpty}}

\* keeper.delay_compensation of 0 ms and of 10 ms
TrackerConfigs ==
    {[Config(Some(1), TRUE, HeartbeatOff, 1, 2) EXCEPT !.offset_samples = o] :
        o \in {0, SampleRate \div 100}}

\* sample positions: on grid beats, between them and a few samples around one
TrackerPositions == {0, 17199, 17640, 20680, 20685, 22050, 44100, 66150}

InitTracker == InitFiles(TrackerConfigs, TrackerFiles)

TrackerAttachStep ==
    /\ Attach(Ok(0))
    /\ UNCHANGED obs

TrackerTick ==
    /\ rekordbox.some
    /\ \E pos \in TrackerPositions :
          Update(Memory(Ok(0), [QuietTiming EXCEPT ![0] = Timing(Ok(pos), Ok(128000))],
                        QuietInfos, QuietPaths), MaxTicks)
    /\ UNCHANGED <<obs, osc, setlist>>

NextTracker == TrackerAttachStep \/ TrackerTick

SpecTracker == InitTracker /\ [][NextTracker]_vars

Max(S) == CHOOSE x \in S : \A y \in S : x >= y

\* the beats are sorted strictly by time
SortedGrid(beats) ==
    Len(beats) > 0 /\ \A i \in 1 .. (Len(beats) - 1) : beats[i].time < beats[i + 1].time

\* the phrases are sorted strictly by starting beat
SortedPhrases(phrases) ==
    Len(phrases) > 0 /\ \A i \in 1 .. (Len(phrases) - 1) : phrases[i].beat < phrases[i + 1].beat

\* grid[i].time_ms / 1000 < t_now, with t_now = pos / 44100
Before(gridbeat, pos) == gridbeat.time * (SampleRate \div 100) < pos * 10

\* the largest index whose beat lies before t_now, the first if none does
LargestBefore(beats, pos) ==
    LET S == {i \in DOMAIN beats : Before(beats[i], pos)}
    IN IF S = {} THEN 1 ELSE Max(S)

\* binary search for the number of beats before t_now among beats lo+1 .. hi
RECURSIVE Bisect(_, _, _, _)
Bisect(beats, pos, lo, hi) ==
    IF lo >= hi THEN lo
    ELSE LET mid == (lo + hi) \div 2 IN
         IF Before(beats[mid + 1], pos) THEN Bisect(beats, pos, mid + 1, hi)
         ELSE Bisect(beats, pos, lo, mid)

\* the index the tracker's linear scan selects, counted from 1
Scanned(beats, pos) == SaturatingSub1(GridScan(beats, pos, 0)) + 1

\* the largest phrase that starts on or before beat_num, the first if none
ActivePhrase(phrases, beat_num) ==
    LET S == {j \in DOMAIN phrases : phrases[j].beat <= beat_num}
    IN IF S = {} THEN 1 ELSE Max(S)

\* the beat number the tracker works with: the selected index counted from 1,
\* 1 without a grid
BeatNum(tracker, pos) ==
    IF tracker.beatgrid.some THEN LargestBefore(tracker.beatgrid.v.beats, pos) ELSE 1

\* the step is a completed tick: the tracker of deck 0 ran on the cache the
\* keeper held before the tick
TrackerRan == n' = n + 1

\* the cells cell hold the grid part of the result for tracker and pos
GridAgrees(tracker, pos, cell) ==
    IF ~tracker.beatgrid.some
    THEN cell.beat_changed = 0 /\ cell.original_bpm_changed = DefaultOriginalBpm
    ELSE \A beats \in {tracker.beatgrid.v.beats} : SortedGrid(beats) =>
            \E i \in {LargestBefore(beats, pos)} :
               /\ cell.original_bpm_changed = beats[i].tempo * 10
               /\ cell.beat_changed =
                     ((beats[i].beat_number + 3) % 4) * BeatUnit + BeatFraction(beats[i], pos)
               /\ Scanned(beats, pos) = i
               /\ SaturatingSub1(Bisect(beats, pos, 0, Len(beats))) + 1 = i

\* C21: for a grid sorted strictly by time the tracker selects the largest
\* index whose beat time lies before t_now (the first if none) and returns
\* that beat's tempo / 100 as original_bpm and ((beat_number + 3) mod 4) +
\* (t_now - time) / (60 / original_bpm) as beat; without a grid it returns
\* beat 0 and original_bpm 120; a binary search selects the same index.
C21_TrackerSelectsLargestBefore ==
    [][TrackerRan =>
          GridAgrees(keeper.track_trackers[0],
                     mem'.sample_positions[0].val + cfg.offset_samples,
                     keeper'.td_trackers[0])]_vars

\* half a second into the track with the grid of 150 bpm: the second beat is
\* selected, a quarter of a beat has passed since
C21_Witness ==
    /\ last.op = "update" /\ last.res = "Ok" /\ n >= 2
    /\ keeper.track_trackers[0].beatgrid = Some(GridA)
    /\ mem.sample_positions[0].val + cfg.offset_samples = 22050
    /\ keeper.td_trackers[0].beat_changed = BeatUnit + BeatUnit \div 4
    /\ keeper.td_trackers[0].original_bpm_changed = 150000

\* the cells cell hold the result for index k at a position on beat k
BoundaryAgrees(tracker, pos, cell) ==
    tracker.beatgrid.some =>
        \A k \in DOMAIN tracker.beatgrid.v.beats :
            tracker.beatgrid.v.beats[k].time * (SampleRate \div 100) = pos * 10 =>
                /\ Scanned(tracker.beatgrid.v.beats, pos) = k
                /\ cell.beat_changed =
                      ((tracker.beatgrid.v.beats[k].beat_number + 3) % 4) * BeatUnit

\* C22: exactly at a beat boundary, t_now = grid[k].time / 1000, the selected
\* index is k, the beat that has just become active, not the one before it.
C22_BoundarySelectsNewBeat ==
    [][TrackerRan =>
          BoundaryAgrees(keeper.track_trackers[0],
                         mem'.sample_positions[0].val + cfg.offset_samples,
                         keeper'.td_trackers[0])]_vars

\* the cells cell hold the phrase part of the result for tracker and pos
PhrasesAgree(tracker, pos, cell) ==
    IF ~tracker.songstructure.some
    THEN cell.phrase = "" /\ cell.next_phrase = "" /\ cell.next_phrase_in = 0
    ELSE \A song \in {tracker.songstructure.v} : SortedPhrases(song.phrases) =>
            \E beat_num \in {BeatNum(tracker, pos)} :
            \E j \in {ActivePhrase(song.phrases, beat_num)} :
               /\ cell.phrase = PhraseName(song.mood, song.phrases[j].kind)
               /\ IF j + 1 \in DOMAIN song.phrases
                  THEN /\ cell.next_phrase = PhraseName(song.mood, song.phrases[j + 1].kind)
                       /\ cell.next_phrase_in = song.phrases[j + 1].beat - beat_num
                  ELSE cell.next_phrase = "" /\ cell.next_phrase_in = 0

\* C23: for phrases sorted strictly by starting beat the active phrase is the
\* largest j with phrases[j].beat <= beat_num (the first if none); if a next
\* phrase exists next_phrase is its label and next_phrase_in its starting
\* beat minus beat_num, otherwise they are empty and 0.
C23_ActivePhraseIsLargestStarted ==
    [][TrackerRan =>
          PhrasesAgree(keeper.track_trackers[0],
                       mem'.sample_positions[0].val + cfg.offset_samples,
                       keeper'.td_trackers[0])]_vars

\* beat_num 2 with phrases starting on beats 1, 2 and 5: the phrase that
\* starts on beat 2 is active, the next one starts in 3 beats
C23_Witness ==
    /\ last.op = "update" /\ last.res = "Ok" /\ n >= 2
    /\ keeper.track_trackers[0].beatgrid = Some(GridA)
    /\ keeper.track_trackers[0].songstructure = Some(SongA)
    /\ Scanned(GridA.beats, mem.sample_positions[0].val + cfg.offset_samples) = 2
    /\ keeper.td_trackers[0].phrase = "Up"
    /\ keeper.td_trackers[0].next_phrase = "Chorus"
    /\ keeper.td_trackers[0].next_phrase_in = 3

\* every beat of the grid has the tempo of the first
ConstantTempo(beats) == \A i \in DOMAIN beats : beats[i].tempo = beats[1].tempo

\* a bar starts between the beat selected at before and the one at after
Wraps(beats, before, after) ==
    \E k \in (LargestBefore(beats, before) + 1) .. LargestBefore(beats, after) :
        (beats[k].beat_number + 3) % 4 = 0

\* C24: with a grid of constant tempo and a sample position that increases
\* from one tick to the next, the beat does not decrease unless a bar has
\* started in between (the wraparound at 4).
C24_BeatNonDecreasing ==
    [][(TrackerRan /\ last.op = "update" /\ last.res = "Ok" /\ n >= 1
          /\ keeper.track_trackers[0].beatgrid.some
          /\ SortedGrid(keeper.track_trackers[0].beatgrid.v.beats)
          /\ ConstantTempo(keeper.track_trackers[0].beatgrid.v.beats)
          /\ mem'.sample_positions[0].val > mem.sample_positions[0].val
          /\ ~Wraps(keeper.track_trackers[0].beatgrid.v.beats,
                    mem.sample_positions[0].val + cfg.offset_samples,
                    mem'.sample_positions[0].val + cfg.offset_samples)) =>
          keeper'.td_trackers[0].beat_changed >= keeper.td_trackers[0].beat_changed]_vars

\* C25: set(new) of a change-tracked cell returns true if and only if new
\* differs from the stored value, and stores new: with the heartbeat off a
\* tick dispatches time_update and bpm_changed for the deck exactly when the
\* value read differs from the cell, and the cell holds the value read
\* afterwards; a value set twice in a row is dispatched the first time only.
C25_SetReturnsChangedAndStores ==
    [][TrackerRan =>
          /\ keeper'.td_trackers[0].pos_changed = mem'.sample_positions[0].val
          /\ keeper'.td_trackers[0].bpm_changed = mem'.current_bpms[0].val
          /\ Got(trace', 1, "time_update", 0) <=>
                keeper.td_trackers[0].pos_changed # mem'.sample_positions[0].val
          /\ Got(trace', 1, "bpm_changed", 0) <=>
                keeper.td_trackers[0].bpm_changed # mem'.current_bpms[0].val]_vars

\* a tick read the sample position the tick before it had stored: the cell
\* holds it and nothing was dispatched for it
C25_Witness ==
    /\ last.op = "update" /\ last.res = "Ok" /\ n >= 2
    /\ mem.sample_positions[0].val = 17640
    /\ keeper.td_trackers[0].pos_changed = 17640
    /\ ~Got(trace, 1, "time_update", 0)
    /\ ~Got(trace, 1, "bpm_changed", 0)

\* ------------------------------------------------- SpecOsc: C26, C27
\* module 1 of the running modules is the UDP emitter; every tick hands it
\* the callbacks the keeper made on module 1
MaxSendPeriod == 2
MaxOscTicks == 4

OscEmitters ==
    {OscCreate(Toggles(on), format, k) :
        on \in BOOLEAN, format \in {"string", "int", "float"}, k \in 1 .. MaxSendPeriod}

OscConfigs == {Config(Some(2), TRUE, HeartbeatOff, 1, 2)}

OscMemories ==
    {Memory(Ok(x), [QuietTiming EXCEPT ![0] = Timing(Ok(pos), Ok(128000))],
            [QuietInfos EXCEPT ![0] = Ok(track)], QuietPaths) :
        x \in {0, 1}, pos \in {0, 17640, 22050}, track \in {DefaultTrackInfo, TrackX}}

InitOsc == InitModules(OscConfigs, {GoodFiles}, OscEmitters, {NoSetlist})

OscAttachStep ==
    /\ Attach(Ok(0))
    /\ UNCHANGED obs

\* the value of the last entry of seq, or what was there before
LastOf(seq, before) == IF Len(seq) = 0 THEN before ELSE Some(seq[Len(seq)].val)

\* the receiver's view after a tick: the last master beat handed to the
\* emitter (told) and the last one it put on the wire (sent)
OscHear(o, tr) ==
    [o EXCEPT !.heard =
        [told |-> LastOf(SelectSeq(tr, LAMBDA e : e.m = 1 /\ e.cb = "beat_update_master"), @.told),
         sent |-> LastOf(SelectSeq(o.sent, LAMBDA p : p.addr = <<"beat", "master">>), @.sent)]]

OscTick ==
    /\ rekordbox.some
    /\ \E m \in OscMemories : Update(m, MaxOscTicks)
    /\ osc' = OscHear(OscFeed([osc EXCEPT !.sent = <<>>], trace', 1), trace')
    /\ UNCHANGED <<obs, setlist>>

NextOsc == OscAttachStep \/ OscTick

SpecOsc == InitOsc /\ [][NextOsc]_vars

\* the number of packets sent to an address that starts with first and ends
\* with end
PacketsAt(sent, first, end) ==
    Len(SelectSeq(sent, LAMBDA p : p.addr[1] = first /\ p.addr[Len(p.addr)] = end))

\* the number of packets sent on the channel first
PacketsOn(sent, first) == Len(SelectSeq(sent, LAMBDA p : p.addr[1] = first))

\* the number of calls of the callbacks cbs the tick made on the emitter
CallsOf(tr, cbs) == Len(SelectSeq(tr, LAMBDA e : e.m = 1 /\ e.cb \in cbs))

\* the channels the counter does not gate carry one packet per callback
Unthrottled(o, sent, tr) ==
    /\ PacketsAt(sent, "bpm", "current") = CallsOf(tr, {"bpm_changed", "bpm_changed_master"})
    /\ PacketsAt(sent, "bpm", "original") = CallsOf(tr, {"original_bpm_changed_master"})
    /\ PacketsAt(sent, "track", "title") = CallsOf(tr, {"track_changed", "track_changed_master"})
    /\ PacketsAt(sent, "track", "anlz_path") = CallsOf(tr, {"anlz_path_changed"})
    /\ PacketsAt(sent, "masterdeck", "index") = CallsOf(tr, {"masterdeck_index_changed"})
    /\ PacketsAt(sent, "phrase", "current") =
          CallsOf(tr, {"phrase_changed_master"})
          + (IF o.m.message_toggles.phrase THEN CallsOf(tr, {"phrase_changed"}) ELSE 0)
    /\ PacketsAt(sent, "phrase", "countin") =
          CallsOf(tr, {"next_phrase_in_master"})
          + (IF o.m.message_toggles.phrase THEN CallsOf(tr, {"next_phrase_in"}) ELSE 0)

\* C26: with send_period k >= 1 the counter advances by one modulo k on every
\* pre_update and lies in [0, k); the beat and time callbacks, per-deck and
\* master, send packets only on ticks where the counter is 0, and the bpm,
\* phrase, track, anlz_path and masterdeck-index callbacks send whatever the
\* counter (the emitter has no handler for the per-deck original bpm).
C26_CounterThrottlesBeatAndTimeOnly ==
    [][n' = n + 1 =>
          /\ osc'.m.send_period_counter = (osc.m.send_period_counter + 1) % osc.m.send_period
          /\ osc'.m.send_period_counter \in 0 .. (osc.m.send_period - 1)
          /\ osc'.m.send_period_counter # 0 =>
                PacketsOn(osc'.sent, "beat") = 0 /\ PacketsOn(osc'.sent, "time") = 0
          /\ osc'.m.send_period_counter = 0 =>
                /\ PacketsAt(osc'.sent, "beat", "master") = CallsOf(trace', {"beat_update_master"})
                /\ PacketsAt(osc'.sent, "time", "master") = CallsOf(trace', {"time_update_master"})
          /\ Unthrottled(osc', osc'.sent, trace')]_vars

\* a tick on which the counter is 1: the master time callback was made and
\* sent nothing, the bpm callbacks were made and sent
C26_Witness ==
    /\ last.op = "update" /\ last.res = "Ok"
    /\ osc.m.send_period = 2 /\ osc.m.send_period_counter = 1
    /\ CallsOf(trace, {"time_update_master"}) = 1
    /\ PacketsOn(osc.sent, "time") = 0
    /\ CallsOf(trace, {"bpm_changed_master"}) = 1
    /\ PacketsAt(osc.sent, "bpm", "current") >= 2

\* C27: every phrase label message the emitter sends, for the current and
\* the next phrase, on per-deck and master addresses, carries the type of
\* the configured phrase output format: the table's integer for int and
\* float, the label for string.
C27_PhraseLabelsFollowFormat ==
    \A i \in DOMAIN osc.sent :
        (osc.sent[i].addr[1] = "phrase"
           /\ osc.sent[i].addr[Len(osc.sent[i].addr)] \in {"current", "next"}) =>
            osc.sent[i].type = osc.m.message_toggles.phrase_output_format

\* ------------------------------------------------- SpecSetlist: C28
\* the setlist module is created once at startup and then receives the
\* master track changes; the clock never runs backwards
MaxEpoch == 3
MaxLines == 3

SetlistFiles == {None, Some(<<>>), Some(<<"1">>), Some(<<"abc">>)}

SetlistInputs ==
    {[NoSetlist EXCEPT !.disk = disk, !.conf = conf, !.now = now] :
        disk \in [SetlistNames -> SetlistFiles], conf \in SetlistNames, now \in 1 .. 2}

InitSetlist == InitModules(DispatchConfigs, {GoodFiles}, {DefaultOsc}, SetlistInputs)

SetlistStart ==
    /\ setlist.res = "None"
    /\ \E r \in {SetlistCreate(setlist.conf, setlist.disk, setlist.now, MaxEpoch)} :
          setlist' = [setlist EXCEPT !.res = r.res, !.m = r.m, !.disk = r.disk, !.log = r.log]
    /\ UNCHANGED <<cfg, rekordbox, n, keeper, mem, fs, trace, last, obs, host, osc>>

SetlistTrackChanged ==
    /\ setlist.res = "Ok"
    /\ \A f \in SetlistNames : setlist.disk[f].some => Len(setlist.disk[f].v) < MaxLines
    /\ \E track \in {DefaultTrackInfo, TrackX}, now \in setlist.now .. MaxEpoch :
          \E r \in {SetlistTrackChangedMaster(setlist.m, setlist.disk, now, track)} :
              setlist' = [setlist EXCEPT !.m = r.m, !.disk = r.disk, !.log = r.log, !.now = now]
    /\ UNCHANGED <<cfg, rekordbox, n, keeper, mem, fs, trace, last, obs, host, osc>>

NextSetlist == SetlistStart \/ SetlistTrackChanged

SpecSetlist == InitSetlist /\ [][NextSetlist]_vars

\* the configured file exists and its first line is an integer
StartsWithInteger(file) == file.some /\ FirstLine(file.v, MaxEpoch).ok

\* C28: for the configured file name F, Setlist::create fails when F exists
\* and its first line is no integer, continues from the start time in F when
\* F exists with an integer first line, and creates F with the current epoch
\* second as its first line when F does not exist.
C28_CreateFollowsConfiguredFile ==
    [][(setlist.res = "None" /\ setlist'.res # "None") =>
          /\ (setlist.disk[setlist.conf].some /\ ~StartsWithInteger(setlist.disk[setlist.conf])) =>
                setlist'.res = "Err"
          /\ StartsWithInteger(setlist.disk[setlist.conf]) =>
                /\ setlist'.res = "Ok"
                /\ ~setlist'.m.stopped
                /\ setlist'.m.start_time = FirstLine(setlist.disk[setlist.conf].v, MaxEpoch).val
                /\ setlist'.disk = setlist.disk
          /\ ~setlist.disk[setlist.conf].some =>
                /\ setlist'.res = "Ok"
                /\ setlist'.disk[setlist.conf] = Some(<<ToString(setlist.now)>>)]_vars

\* ------------------------------------------------- SpecWatcher: C29
\* BeatKeeper::start creates the watcher before it enters the loop, lines
\* 349-356: notify::recommended_watcher succeeds, or its error is logged and
\* start returns.  In the loop the watcher delivers events and errors.
StartFailed == [NoOutcome EXCEPT !.res = "Err"]

\* the scheduler loop was entered
Started == last # StartFailed

InitWatcher ==
    /\ \E created \in BOOLEAN :
          /\ last = IF created THEN NoOutcome ELSE StartFailed
          /\ trace = IF created THEN <<>> ELSE <<Op("log_err", "Failed to create watcher")>>
    /\ cfg \in AnlzConfigs
    /\ rekordbox = None
    /\ n = 0
    /\ keeper = NewKeeper
    /\ mem = QuietMemory
    /\ fs = GoodFiles
    /\ host = QuietHost
    /\ osc = DefaultOsc
    /\ setlist = NoSetlist
    /\ obs = [quiet |-> [cb \in HeartbeatCallbacks |-> [d \in Slots |-> 0]],
              steady |-> [d \in Slots |-> 0], valid |-> 0,
              err |-> None, reattached |-> FALSE, prev |-> NoOutcome, failed |-> None,
              pending |-> None]

WatcherAttachStep == Started /\ AnlzAttachStep

WatcherTick == Started /\ AnlzTick

WatcherFileChange == Started /\ WatchedFileChange

\* the watcher posts an error on the event channel
WatcherError ==
    /\ Started
    /\ Len(keeper.watcher_rx) < MaxEvents
    /\ keeper' = [keeper EXCEPT !.watcher_rx = Append(@, Err("notify::Error"))]
    /\ UNCHANGED <<cfg, rekordbox, n, mem, fs, trace, last, obs, host, osc, setlist>>

NextWatcher == WatcherAttachStep \/ WatcherTick \/ WatcherFileChange \/ WatcherError

SpecWatcher == InitWatcher /\ [][NextWatcher]_vars

WatcherErrorLines ==
    {"Failed to create watcher", "Failed to watch path", "Failed to unwatch path", "Watcher error"}

\* the watcher errors logged by the latest step
WatcherErrors(tr) ==
    {tr[i].val : i \in {j \in DOMAIN tr : tr[j].cb = "log_err" /\ tr[j].val \in WatcherErrorLines}}

\* C29: every filesystem watcher error is logged and the scheduler goes on:
\* after a failure to create the watcher at startup, a failed watch or
\* unwatch call, or an error on the event channel, the scheduler loop runs
\* and the tick that logged the error did not fail.
C29_WatcherErrorsNeverStop ==
    WatcherErrors(trace) # {} => Started /\ last.res = "Ok"

\* the errors raised inside the loop never fail the tick
C29_LoopErrorsNeverFail ==
    (Started /\ WatcherErrors(trace) # {}) => last.res = "Ok"

\* a tick that logged a failed watch, a failed unwatch and a channel error
C29_LoopErrorsSeen ==
    /\ last.op = "update"
    /\ WatcherErrors(trace) = WatcherErrorLines \ {"Failed to create watcher"}

\* ------------------------------------------------------------------ C30
\* C30: update runs only while attached; the tick counter goes up by exactly
\* one on every update that returns Ok, short-circuited ticks included, and
\* stays as it is on a failed update and on every attach attempt, so the
\* first tick after a reconnect has the slow and very-slow classification of
\* the tick that failed.
C30_CounterCountsOkTicks ==
    [][/\ last'.op = "update" => rekordbox.some
       /\ (last'.op = "update" /\ last'.res = "Ok") => n' = n + 1
       /\ (last'.op = "update" /\ last'.res = "Err") => n' = n /\ ~rekordbox'.some
       /\ last'.op = "attach" => n' = n /\ ~rekordbox.some
       /\ (last'.op = "update" /\ last.op = "attach" /\ obs.failed.some) =>
             /\ last'.slow = obs.failed.v.slow
             /\ last'.very_slow = obs.failed.v.very_slow]_vars

\* the first tick after a reconnect, when the tick that failed was not a
\* very slow one and ticks before it were short-circuited
C30_Witness ==
    /\ last.op = "update" /\ ~last.very_slow /\ n > 0
    /\ obs.prev.op = "attach" /\ obs.prev.res = "Ok"
    /\ obs.failed.some /\ ~obs.failed.v.very_slow

\* ------------------------------------------------------------------ C31
\* C31: every change of the master-deck index to a valid deck m that the
\* scheduler records in its cell is followed, in that tick or a later one, by
\* masterdeck_index_changed(m) and track_changed_master, also when a later
\* read of the recording tick fails and the host is re-attached with the
\* index still m: no tick returns Ok with the cell at m while the dispatch
\* of the change to m is outstanding.
C31_IndexChangeIsAnnounced ==
    (last.op = "update" /\ last.res = "Ok" /\ obs.pending.some) =>
        keeper.masterdeck_index # obs.pending.v

\* ------------------------------------------------------------------ C32
\* C32: with heartbeats off and the master beat channel on, once the master
\* beat has changed and stays as it is, the last /beat/master packet carries
\* that beat; a change handed over on a tick where the throttle counter is
\* not 0 is not lost: after every tick that ends with the counter at 0 the
\* last packet sent is the last beat the emitter was given.
C32_LastBeatReachesTheWire ==
    (last.op = "update" /\ last.res = "Ok"
       /\ osc.m.send_period_counter = 0 /\ osc.heard.told.some) =>
        osc.heard.sent = osc.heard.told

\* ------------------------------------------------------------------ C33
\* the caches a deck holds once the files of path are read and parsed
ParsedFrom(files, path) ==
    [beatgrid |-> SectionsInto(FileRead(files, path).sections, "BeatGrid", None, 1),
     songstructure |-> SectionsInto(FileRead(files, ReplaceDatExt(path)).sections,
                                    "SongStructure", None, 1)]

\* the files of path are readable and parsable
Loadable(files, path) ==
    /\ FileRead(files, path).state = "ok"
    /\ FileRead(files, ReplaceDatExt(path)).state = "ok"

\* C33: if the host-reported ANLZ path of a deck stays P and P's .DAT and
\* .EXT files are readable and parsable from some point on, the deck's cached
\* beat grid and song structure eventually are the ones parsed from P, also
\* when the first load after the switch to P failed: a slow tick that finds
\* the stored path still P and P's files loadable leaves the deck with the
\* caches parsed from P.
C33_LoadableFilesGetLoaded ==
    [][\A d \in Slots :
          (ValidTick' /\ last'.slow /\ last'.res = "Ok" /\ d < DeckCount
             /\ keeper.anlz_paths[d] = mem'.anlz_paths[d].val
             /\ Loadable(fs, keeper.anlz_paths[d])) =>
              keeper'.track_trackers[d] = ParsedFrom(fs, keeper.anlz_paths[d])]_vars

\* ------------------------------------------------------------------ C34
\* the file at path exists, so that a watch call on it succeeds
Exists(files, path) == FileRead(files, path).state # "missing"

\* C34: at the end of every slow tick the watched set holds the .DAT path and
\* the .EXT path of every deck's stored, non-empty ANLZ path whose files
\* exist; in particular, when two decks hold the same path and one of them
\* switches to another path, the files of the deck that still holds the path
\* stay watched.
C34_StoredPathsAreWatched ==
    [][\A d \in Slots :
          (ValidTick' /\ last'.slow /\ last'.res = "Ok" /\ d < DeckCount
             /\ keeper'.anlz_paths[d] # EmptyPath
             /\ Exists(fs, keeper'.anlz_paths[d])
             /\ Exists(fs, ReplaceDatExt(keeper'.anlz_paths[d]))) =>
              {keeper'.anlz_paths[d], ReplaceDatExt(keeper'.anlz_paths[d])}
                  \subseteq keeper'.watcher]_vars

\* ------------------------------------------------------------------ C35
\* C35: for every cached beat grid and song structure, a grid with no beats
\* and a song structure with no phrases included, the grid index and the
\* phrase index the tracker selects are indices into their sequences: the
\* tracker returns a result and no tick ends in an index out of bounds.
C35_TrackerIndicesAreValid ==
    (last.op = "update"
       /\ \E d \in Decks(DeckCount) :
             \/ keeper.track_trackers[d].beatgrid.some
             \/ keeper.track_trackers[d].songstructure.some) =>
        last.res # "Panic"

====
